---- MODULE Spec2Model ----
(***************************************************************************)
(* A model of the IFC viewer's geometry pipeline:                          *)
(*   - streamGeometry (ifc/geometry): deduplication of placed geometries   *)
(*     by (geometryExpressID, colorId);                                    *)
(*   - buildScene / disposeScene (ifc/scene): the chunked async generator  *)
(*     that turns geometry groups into meshes, and the teardown;           *)
(*   - IfcModelStore.loadData (hooks/useIfcData): the load sequence that   *)
(*     drives both, including overlapping load requests;                   *)
(*   - useIfcPicking (hooks/useIfcPicking): the pointer-down handler that  *)
(*     resolves a picked mesh to an element.                               *)
(*                                                                         *)
(* Four specifications share the variables:                                *)
(*   SpecStream  one streamGeometry pass, one StreamAllMeshes callback per *)
(*               step;                                                     *)
(*   SpecBuild   one buildScene generator driven by a consumer, for every  *)
(*               group list streamGeometry can return and every chunk size,*)
(*               with disposeScene calls before and after the build;       *)
(*   SpecStore   load requests to one IfcModelStore, one step per          *)
(*               continuation of an await;                                 *)
(*   SpecPick    pointer-down events on the scene of a completed build.    *)
(***************************************************************************)
EXTENDS Integers, Sequences, FiniteSets, TLC

VARIABLES
    streamed,   \* SpecStream: the placements StreamAllMeshes delivered so far
    groups,     \* SpecStream: the Map `groups` (entries in insertion order)
    fetched,    \* SpecStream: log of the GetGeometry calls of this pass
    result,     \* SpecStream: the returned array, once returned
    spc,        \* SpecStream: "streaming" | "returned"
    scene,      \* the Babylon scene: transformNodes, materials, meshes
    gen,        \* per load: the buildScene generator's frame
    yields,     \* per load: the snapshots the generator has yielded so far
    state,      \* IfcModelStore.state
    lpc,        \* per load: where loadData is suspended
    lvars,      \* per load: loadData's locals (file, modelID, result)
    published,  \* every state handed to setState, in order (one notify each)
    camera,     \* the ArcRotateCamera's framing
    framings,   \* log of the adjustCameraToMeshes calls: meshes and bounds
    overlapped, \* history: loadData was called with another call in flight
    openModels, \* the models open in the web-ifc API
    nextModelID, \* the model id OpenModel hands out next
    disposals,  \* log of the disposeScene calls: where each was made from
    pickedElement,   \* useIfcPicking: the pickedElement state
    highlightedMesh, \* useIfcPicking: highlightedMesh.current
    handlers,   \* useIfcPicking: the onPointerDown calls, in order of arrival
    hookVersion \* useIfcPicking: which of the file's two versions is mounted

vars == <<streamed, groups, fetched, result, spc, scene, gen, yields,
          state, lpc, lvars, published, camera, framings, overlapped,
          openModels, nextModelID,
          disposals, pickedElement, highlightedMesh, handlers, hookVersion>>

streamVars == <<streamed, groups, fetched, result, spc>>
storeVars ==
    <<state, lpc, lvars, published, camera, framings, overlapped,
      openModels, nextModelID>>
pickVars == <<pickedElement, highlightedMesh, handlers, hookVersion>>

-----------------------------------------------------------------------------
(* Bounds of the model.                                                    *)

\* Placements delivered in one streamGeometry pass (SpecStream).
MaxPlacements == 3
\* Placements of the models a standalone build is fed with (SpecBuild).
MaxBuildPlacements == 3
\* Pointer-down events delivered to the picking hook (SpecPick).
MaxPointerEvents == 2
\* disposeScene calls made on the scene of a standalone build (SpecBuild).
MaxDisposals == 2
\* Chunk sizes tried for a standalone build (SpecBuild).
MaxChunkSize == 2
\* Load requests issued to the store (SpecStore).
MaxLoads == 2
MaxBoundsMeshes == 3
MaxFramings == 1
MaxFailures == 1

-----------------------------------------------------------------------------
(* JavaScript numbers and strings.                                         *)

\* colorId reaches 2^32 - 1, so a colour key is kept as two limbs:
\* the number hi * 2^24 + lo with 0 <= lo < 2^24.
Limb == 16777216

Num(hi, lo) == [hi |-> hi + (lo \div Limb), lo |-> lo % Limb]

\* Quotient and remainder of a two-limb number by ten.
DivTen(n) ==
    LET t == (n.hi % 10) * Limb + n.lo
    IN  [q |-> [hi |-> n.hi \div 10, lo |-> t \div 10], d |-> t % 10]

\* The decimal string a template literal makes of a non-negative integer.
RECURSIVE NumToString(_)
NumToString(n) ==
    IF n.hi = 0 THEN ToString(n.lo)
    ELSE NumToString(DivTen(n).q) \o ToString(DivTen(n).d)

\* String.prototype.startsWith
StartsWith(s, prefix) ==
    /\ Len(s) >= Len(prefix)
    /\ SubSeq(s, 1, Len(prefix)) = prefix

-----------------------------------------------------------------------------
(* The parsed model: placements and the shape source.                      *)

\* A colour channel is a number in [0,1], kept in thousandths.
ChannelDen == 1000

\* placed.color: <<>> is an absent colour, otherwise <<x, y, z, w>>.
NoColor == <<>>
Red == <<1000, 0, 0, 1000>>
\* A red whose green channel is below one step of 1/255.
NearRed == <<1000, 1, 0, 1000>>

\* A red whose red channel is a thousandth below 1.
AlmostRed == <<999, 0, 0, 1000>>
\* Black with alpha 0.
TransparentBlack == <<0, 0, 0, 0>>

Colors == {NoColor, Red}

\* flatMesh.expressID: StreamAllMeshes delivers each element once, so the
\* n-th flat mesh of a stream is the element 100 + n.
ExpressIDOfMesh(n) == 100 + n

\* placed.geometryExpressID; Undefined stands for a placement without one.
Undefined == 0
ShapeIDs == {1, 2, 3, 4, 5}

\* The interleaved vertex array (6 floats per vertex) and the index array
\* web-ifc holds for a shape.
TriangleVerts(z) ==
    <<0, 0, z, 0, 0, 1,   1, 0, z, 0, 0, 1,   0, 1, z, 0, 0, 1>>

\* api.GetGeometry + GetVertexArray + GetIndexArray: shapes 1 and 2 are
\* triangles, shape 3 has no geometry, shape 4 no vertices, shape 5 no
\* indices.
ShapeSource(shapeID) ==
    CASE shapeID = 1 -> [present |-> TRUE, verts |-> TriangleVerts(0),
                         indices |-> <<0, 1, 2>>]
      [] shapeID = 2 -> [present |-> TRUE, verts |-> TriangleVerts(1),
                         indices |-> <<0, 2, 1>>]
      [] shapeID = 3 -> [present |-> FALSE, verts |-> <<>>, indices |-> <<>>]
      [] shapeID = 4 -> [present |-> TRUE, verts |-> <<>>,
                         indices |-> <<0, 1, 2>>]
      [] OTHER       -> [present |-> TRUE, verts |-> TriangleVerts(0),
                         indices |-> <<>>]

\* placed.flatTransformation: the column-major translation by t along x.
FlatTransformation(t) ==
    [j \in 1..16 |-> IF j \in {1, 6, 11, 16} THEN 1
                     ELSE IF j = 13 THEN t ELSE 0]

\* The placed geometries a flat mesh can hold.
PlacedGeometries ==
    [geometryExpressID : ShapeIDs \cup {Undefined}, color : Colors]

SeqsUpTo(S, lo, hi) == UNION {[1..n -> S] : n \in lo..hi}

-----------------------------------------------------------------------------
(* ifc/geometry: colorId and streamGeometry.                               *)

\* Math.floor(channel * 255)
Floor255(c) == (c * 255) \div ChannelDen

colorId(color) ==
    IF color = NoColor THEN Num(0, 0)
    ELSE Num(Floor255(color[4]),
             Floor255(color[1]) + Floor255(color[2]) * 256
                 + Floor255(color[3]) * 65536)

\* A key that leaves the colour out.
GroupKeyShapeOnly(geometryExpressID, id) == ToString(geometryExpressID)

\* `${placed.geometryExpressID}-${id}`
GroupKey(geometryExpressID, id) ==
    ToString(geometryExpressID) \o "-" \o NumToString(id)

\* groups.has(key) / groups.get(key) on the Map's entry list.
MapHas(map, key) == \E i \in 1..Len(map) : map[i].key = key
MapIndex(map, key) == CHOOSE i \in 1..Len(map) : map[i].key = key

\* positions / normals: the de-interleaving loop.
Positions(verts) ==
    [k \in 1..((Len(verts) \div 6) * 3) |->
        verts[((k - 1) \div 3) * 6 + ((k - 1) % 3) + 1]]
Normals(verts) ==
    [k \in 1..((Len(verts) \div 6) * 3) |->
        verts[((k - 1) \div 3) * 6 + ((k - 1) % 3) + 4]]

\* A verdict that rejects an absent payload only.
PayloadRejectedIfAbsent(geometry) == ~geometry.present

\* The verdict on a first occurrence's payload: `!geometry` or an empty array.
PayloadRejected(geometry) ==
    \/ ~geometry.present
    \/ Len(geometry.verts) = 0
    \/ Len(geometry.indices) = 0

\* A lookup that remembers only the entry inserted last.
KnownGroupLastOnly(map, key) == Len(map) > 0 /\ map[Len(map)].key = key

\* Whether a placement's key is already in the Map, so that no fetch is made.
KnownGroup(map, key) == MapHas(map, key)

\* An instance put in front of the others.
UnshiftInstance(instances, instance) == <<instance>> \o instances

\* instances.push(instance)
PushInstance(instances, instance) == Append(instances, instance)

\* One iteration of the loop over flatMesh.geometries.
\* st = [groups, fetched]; placed carries its matrix.
ProcessPlaced(st, expressID, placed) ==
    IF placed.geometryExpressID = Undefined THEN st
    ELSE
    LET id == colorId(placed.color)
        key == GroupKey(placed.geometryExpressID, id)
        instance == [expressID |-> expressID, matrix |-> placed.matrix]
    IN  IF KnownGroup(st.groups, key)
        THEN LET i == MapIndex(st.groups, key)
             IN  [st EXCEPT !.groups[i].value.instances =
                                PushInstance(@, instance)]
        ELSE
        LET geometry == ShapeSource(placed.geometryExpressID)
            called == Append(st.fetched,
                             [geometryExpressID |-> placed.geometryExpressID,
                              colorId |-> id])
        IN  IF PayloadRejected(geometry)
            THEN [st EXCEPT !.fetched = called]
            ELSE [groups |-> Append(st.groups,
                     [key |-> key,
                      value |-> [geometryExpressID |-> placed.geometryExpressID,
                                 colorId |-> id,
                                 color |-> placed.color,
                                 positions |-> Positions(geometry.verts),
                                 normals |-> Normals(geometry.verts),
                                 indices |-> geometry.indices,
                                 instances |-> <<instance>>]]),
                  fetched |-> called]

\* The StreamAllMeshes callback: the loop over one flat mesh's geometries.
RECURSIVE StreamCallback(_, _, _)
StreamCallback(st, expressID, geometries) ==
    IF geometries = <<>> THEN st
    ELSE StreamCallback(ProcessPlaced(st, expressID, Head(geometries)),
                        expressID, Tail(geometries))

\* Array.from(groups.values())
MapValues(map) == [i \in 1..Len(map) |-> map[i].value]

\* The element of the flat mesh that follows the placements delivered so far.
NextExpressID(placements) ==
    IF placements = <<>> THEN ExpressIDOfMesh(1)
    ELSE placements[Len(placements)].expressID + 1

\* A whole pass over a flattened placement stream, as loadData runs it.
RECURSIVE StreamPass(_, _)
StreamPass(st, placements) ==
    IF placements = <<>> THEN st
    ELSE StreamPass(ProcessPlaced(st, Head(placements).expressID,
                                  Head(placements)),
                    Tail(placements))

streamGeometry(placements) ==
    MapValues(StreamPass([groups |-> <<>>, fetched |-> <<>>], placements).groups)

\* The n-th placement of a stream carries the translation by n.
WithMatrices(expressID, geometries, offset) ==
    [k \in 1..Len(geometries) |->
        [expressID |-> expressID,
         geometryExpressID |-> geometries[k].geometryExpressID,
         color |-> geometries[k].color,
         matrix |-> FlatTransformation(offset + k)]]

-----------------------------------------------------------------------------
(* The Babylon scene.  Objects are records; a reference to one is its id.  *)
(* Disposing an object removes it from the scene's list.                   *)

EmptyScene == [transformNodes |-> <<>>, materials |-> <<>>, meshes |-> <<>>]

RootName == "ifc-root"
MaterialPrefix == "ifc-material-"
MeshPrefix == "ifc-geo-"

RootId(load) == <<"root", load, 0>>
MaterialId(load, k) == <<"material", load, k>>
MeshId(load, k) == <<"mesh", load, k>>
NoRef == <<>>

\* A value that may be absent (null, undefined).
None == <<>>
Some(v) == <<v>>

\* new TransformNode(name, scene)
NewTransformNode(id, name) == [id |-> id, name |-> name, scalingZ |-> 1]

\* new Mesh(name, scene), with the engine's defaults
NewMesh(id, name) ==
    [id |-> id, name |-> name, parent |-> NoRef, material |-> NoRef,
     isPickable |-> TRUE, isVisible |-> TRUE, renderOverlay |-> FALSE,
     positions |-> <<>>, normals |-> <<>>, indices |-> <<>>,
     metadata |-> <<>>, preTransformMatrix |-> <<>>,
     thinInstanceBuffer |-> <<>>, thinInstanceCount |-> 0,
     thinInstanceEnablePicking |-> TRUE, worldMatrixFrozen |-> FALSE]

\* The scene removes a material or a transform node by moving the last
\* element of its array into the freed slot.
SwapRemove(seq, k) ==
    IF k = Len(seq) THEN SubSeq(seq, 1, Len(seq) - 1)
    ELSE [SubSeq(seq, 1, Len(seq) - 1) EXCEPT ![k] = seq[Len(seq)]]

-----------------------------------------------------------------------------
(* ifc/scene: getMaterial, buildScene, disposeScene.                       *)

\* opts.chunkSize when the caller passes none
DefaultChunkSize == 1024

\* zOffset counts steps of 0.05; it wraps at 1.0, after ZOffsetSteps steps.
ZOffsetSteps == 20

Min(a, b) == IF a < b THEN a ELSE b

\* A depth bias that stays where it is.
ZOffsetKept(zOffset) == zOffset

\* zOffset = (zOffset + 0.05) % 1.0
NextZOffset(zOffset) == (zOffset + 1) % ZOffsetSteps

\* A cache in which no lookup ever hits.
CacheAlwaysMisses(cache, colorKey) == FALSE

CacheHas(cache, colorKey) == \E i \in 1..Len(cache) : cache[i].key = colorKey
CacheGet(cache, colorKey) ==
    cache[CHOOSE i \in 1..Len(cache) : cache[i].key = colorKey].value

\* getMaterial: returns the scene, the cache and the material's id.
getMaterial(group, sc, cache, zOffset, doubleSided, id) ==
    IF CacheHas(cache, group.colorId)
    THEN [scene |-> sc, cache |-> cache,
          material |-> CacheGet(cache, group.colorId)]
    ELSE
    LET mat == [id |-> id,
                name |-> MaterialPrefix \o NumToString(group.colorId),
                diffuseColor |->
                    IF group.color # NoColor
                    THEN <<group.color[1], group.color[2], group.color[3]>>
                    ELSE <<800, 800, 800>>,
                alpha |-> IF group.color # NoColor THEN group.color[4]
                          ELSE ChannelDen,
                zOffset |-> zOffset,
                backFaceCulling |-> ~doubleSided,
                frozen |-> FALSE]
    IN  [scene |-> [sc EXCEPT !.materials = Append(@, mat)],
         cache |-> Append(cache, [key |-> group.colorId, value |-> id]),
         material |-> id]

\* The thin-instance matrix buffer: instances[j].matrix at offset j * 16.
RECURSIVE MatrixBuffer(_)
MatrixBuffer(instances) ==
    IF instances = <<>> THEN <<>>
    ELSE Head(instances).matrix \o MatrixBuffer(Tail(instances))

\* The metadata of a group with a single instance.
SingletonMetadata(singleton, modelID) ==
    [expressID |-> singleton.expressID, modelID |-> modelID]

\* The metadata of a group with several instances.
InstancedMetadata(instances, modelID) ==
    [expressIDs |-> [j \in 1..Len(instances) |-> instances[j].expressID],
     modelID |-> modelID]

\* A test that takes a pair of instances for a singleton as well.
IsSingletonOrPair(group) == Len(group.instances) <= 2

\* Whether a group takes the singleton path.
IsSingleton(group) == Len(group.instances) = 1

\* Whether vertexData.applyToMesh throws for the k-th group: the engine's
\* doing, fixed for a build as f.uploadThrowsAt (0: no upload fails).
UploadThrows(f, k) == k = f.uploadThrowsAt

\* The body of `for (const group of chunk)`.
\* fs = [frame, scene]; the frame holds the generator's locals.  When the
\* upload throws, the statements after it are not run and the exception
\* leaves the generator (pc "threw").
ProcessGroup(fs, group, load) ==
    LET f == fs.frame
        got == getMaterial(group, fs.scene, f.materialCache, f.zOffset,
                           f.doubleSided,
                           MaterialId(load, Len(f.materialCache) + 1))
        created == [NewMesh(MeshId(load, Len(f.finalMeshes) + 1),
                            MeshPrefix \o ToString(group.geometryExpressID))
                    EXCEPT !.parent = f.rootNode,
                           !.material = got.material,
                           !.isPickable = FALSE,
                           !.isVisible = TRUE]
        uploaded == [created EXCEPT !.positions = group.positions,
                                    !.normals = group.normals,
                                    !.indices = group.indices]
        mesh ==
            IF IsSingleton(group)
            THEN [uploaded EXCEPT
                    !.metadata = SingletonMetadata(group.instances[1],
                                                   f.modelID),
                    !.preTransformMatrix = group.instances[1].matrix,
                    !.worldMatrixFrozen = TRUE]
            ELSE [uploaded EXCEPT
                    !.thinInstanceBuffer = MatrixBuffer(group.instances),
                    !.thinInstanceCount = Len(group.instances),
                    !.thinInstanceEnablePicking = FALSE,
                    !.metadata = InstancedMetadata(group.instances, f.modelID),
                    !.worldMatrixFrozen = TRUE]
    IN  IF UploadThrows(f, Len(f.finalMeshes) + 1)
        THEN [frame |-> [f EXCEPT
                          !.pc = "threw",
                          !.materialCache = got.cache,
                          !.zOffset = NextZOffset(f.zOffset)],
              scene |-> [got.scene EXCEPT !.meshes = Append(@, created)]]
        ELSE
        [frame |-> [f EXCEPT
                      !.materialCache = got.cache,
                      !.zOffset = NextZOffset(f.zOffset),
                      !.totalInstances = @ + Len(group.instances),
                      !.singletonGroups =
                          IF IsSingleton(group) THEN @ + 1 ELSE @,
                      !.instancedGroups =
                          IF IsSingleton(group) THEN @ ELSE @ + 1,
                      !.finalMeshes = Append(@, mesh.id)],
         scene |-> [got.scene EXCEPT !.meshes = Append(@, mesh)]]

RECURSIVE ProcessChunk(_, _, _)
ProcessChunk(fs, chunk, load) ==
    IF chunk = <<>> \/ fs.frame.pc = "threw" THEN fs
    ELSE ProcessChunk(ProcessGroup(fs, Head(chunk), load), Tail(chunk), load)

\* A slice that stops one element early.
SliceShort(seq, from, to) == SubSeq(seq, from + 1, Min(to, Len(seq)) - 1)

\* groups.slice(i, i + chunkSize)
Slice(seq, from, to) == SubSeq(seq, from + 1, Min(to, Len(seq)))

\* A `done` that counts the groups of the current chunk only.
ProgressDoneOfChunk(i, chunkSize, n) == Min(chunkSize, n - i)

\* A `done` that is not clamped to the number of groups.
ProgressDoneUnclamped(i, chunkSize, n) == i + chunkSize

\* The `done` of a building snapshot.
ProgressDone(i, chunkSize, n) == Min(i + chunkSize, n)

\* The snapshot yielded after the chunk loop.
FinalizingSnapshot == [phase |-> "finalizing", done |-> 0, total |-> 1]

\* The generator's frame before its first next().
NewFrame(grps, modelID, chunkSize) ==
    [pc |-> "suspendedStart", groups |-> grps, modelID |-> modelID,
     chunkSize |-> chunkSize, doubleSided |-> TRUE, freezeAfterBuild |-> TRUE,
     i |-> 0, rootNode |-> NoRef, materialCache |-> <<>>,
     finalMeshes |-> <<>>, instancedGroups |-> 0, singletonGroups |-> 0,
     totalInstances |-> 0, zOffset |-> 0, out |-> <<>>,
     uploadThrowsAt |-> 0]

NoFrame == [pc |-> "none"]

\* A loop test that lets the index reach the length.
LoopGoesOnInclusive(i, n) == i <= n

\* i < groups.length
LoopGoesOn(i, n) == i < n

\* The loop test at index f.i and what follows it up to the next yield:
\* one chunk and its building snapshot, or the finalizing snapshot.
RunToYield(fs, load) ==
    LET f == fs.frame
        n == Len(f.groups)
    IN  IF LoopGoesOn(f.i, n)
        THEN LET built == ProcessChunk(fs, Slice(f.groups, f.i,
                                                 f.i + f.chunkSize), load)
             IN  IF built.frame.pc = "threw" THEN built
                 ELSE
                 [frame |-> [built.frame EXCEPT
                     !.pc = "yieldBuilding",
                     !.out = [phase |-> "building",
                              done |-> ProgressDone(f.i, f.chunkSize, n),
                              total |-> n]],
                  scene |-> built.scene]
        ELSE [frame |-> [f EXCEPT !.pc = "yieldFinalizing",
                                  !.out = FinalizingSnapshot],
              scene |-> fs.scene]

\* The snapshots seen so far, after a next() that left the frame f: a
\* next() that ends in an exception yields nothing.
Yielded(seen, f) == IF f.pc = "threw" THEN seen ELSE Append(seen, f.out)

\* The first next(): the prologue, then the loop up to the first yield.
GenStart(f, sc, load) ==
    RunToYield([frame |-> [f EXCEPT !.rootNode = RootId(load)],
                scene |-> [sc EXCEPT !.transformNodes =
                    Append(@, NewTransformNode(RootId(load), RootName))]],
               load)

\* A root whose z scale is left as it is.
KeepZ(node) == node

\* rootNode.scaling.z = -1
FlipZ(node) == [node EXCEPT !.scalingZ = -1]

\* The stage after the last chunk: flip z on the root, freeze the scene's
\* IFC materials, return the result.  (buildTimeMs is not modelled.)
Finalize(f, sc) ==
    [frame |-> [f EXCEPT
        !.pc = "returned",
        !.out = [meshes |-> f.finalMeshes, rootNode |-> f.rootNode,
                 stats |-> [groupCount |-> Len(f.groups),
                            instancedGroupCount |-> f.instancedGroups,
                            singletonGroupCount |-> f.singletonGroups,
                            totalInstances |-> f.totalInstances]]],
     scene |-> [sc EXCEPT
        !.transformNodes =
            [k \in 1..Len(@) |->
                IF @[k].id = f.rootNode THEN FlipZ(@[k]) ELSE @[k]],
        !.materials =
            [k \in 1..Len(@) |->
                IF f.freezeAfterBuild /\ StartsWith(@[k].name, MaterialPrefix)
                THEN [@[k] EXCEPT !.frozen = TRUE]
                ELSE @[k]]]]

\* next() on a generator suspended at a yield: after a building snapshot it
\* runs into the idle wait, after the finalizing snapshot it finalizes.
GenResume(f, sc) ==
    IF f.pc = "yieldBuilding"
    THEN [frame |-> [f EXCEPT !.pc = "idle"], scene |-> sc]
    ELSE Finalize(f, sc)

\* A loop step that leaves one group out between two chunks.
NextChunkStartSkipping(i, chunkSize) == i + chunkSize + 1

\* i += opts.chunkSize
NextChunkStart(i, chunkSize) == i + chunkSize

\* The idle callback resolves the wait: i += chunkSize, then the loop again.
GenIdle(f, sc, load) ==
    RunToYield([frame |-> [f EXCEPT !.i = NextChunkStart(@, f.chunkSize)],
                scene |-> sc], load)

\* scene.materials.forEach(m => { if (m.name.startsWith(...)) m.dispose() }):
\* forEach walks the live array by index while dispose() removes from it.
RECURSIVE DisposeMaterialsFrom(_, _, _)
DisposeMaterialsFrom(materials, k, len0) ==
    IF k > len0 \/ k > Len(materials) THEN materials
    ELSE IF StartsWith(materials[k].name, MaterialPrefix)
         THEN DisposeMaterialsFrom(SwapRemove(materials, k), k + 1, len0)
         ELSE DisposeMaterialsFrom(materials, k + 1, len0)

\* scene.getTransformNodeByName(name): the index of the first match, or 0.
TransformNodeByName(nodes, name) ==
    IF \E k \in 1..Len(nodes) : nodes[k].name = name
    THEN CHOOSE k \in 1..Len(nodes) :
            /\ nodes[k].name = name
            /\ \A j \in 1..(k - 1) : nodes[j].name # name
    ELSE 0

\* node.dispose(): the node and the meshes parented to it leave the scene.
DisposeTransformNode(sc, k) ==
    LET id == sc.transformNodes[k].id
        Kept(m) == m.parent # id
    IN  [sc EXCEPT !.transformNodes = SwapRemove(@, k),
                   !.meshes = SelectSeq(@, Kept)]

disposeScene(sc) ==
    LET swept == [sc EXCEPT !.materials =
                     DisposeMaterialsFrom(@, 1, Len(@))]
        k == TransformNodeByName(swept.transformNodes, RootName)
    IN  IF k = 0 THEN swept ELSE DisposeTransformNode(swept, k)

-----------------------------------------------------------------------------
(* Initial values of the parts a specification does not use.               *)

Loads == 1..MaxLoads

\* Lengths and coordinates of the world are kept in thousandths.
Unit == 1000

\* Number.POSITIVE_INFINITY, above every coordinate of the model.
Infinity == 2000000000

\* Math.sqrt, rounded down to the thousandth the model keeps.
RECURSIVE SqrtBetween(_, _, _)
SqrtBetween(v, lo, hi) ==
    IF lo >= hi THEN lo
    ELSE LET mid == (lo + hi + 1) \div 2
         IN  IF mid * mid <= v THEN SqrtBetween(v, mid, hi)
             ELSE SqrtBetween(v, lo, mid - 1)
Sqrt(v) == SqrtBetween(v, 0, Min(v, 46340))

\* A maximum that keeps the value seen last.
MaxOfLast(a, b) == b

Max(a, b) == IF a > b THEN a ELSE b

\* babylon/camera: createDefaultCamera.  Angles are kept as written.
createDefaultCamera ==
    [alpha |-> "-PI/2", beta |-> "PI/2.5", radius |-> 10 * Unit,
     target |-> <<0, 0, 0>>, lowerRadiusLimit |-> 1 * Unit,
     upperRadiusLimit |-> 1000 * Unit, wheelPrecision |-> 10 * Unit]

IdleStream ==
    /\ streamed = <<>>
    /\ groups = <<>>
    /\ fetched = <<>>
    /\ result = <<>>
    /\ spc = "idle"

IdleStore ==
    /\ state = [status |-> "idle"]
    /\ lpc = [l \in Loads |-> "none"]
    /\ lvars = [l \in Loads |-> <<>>]
    /\ published = <<>>
    /\ camera = createDefaultCamera
    /\ framings = <<>>
    /\ overlapped = FALSE
    /\ openModels = {}
    /\ nextModelID = 0

IdleBuild ==
    /\ scene = EmptyScene
    /\ gen = [l \in Loads |-> NoFrame]
    /\ yields = [l \in Loads |-> <<>>]
    /\ disposals = <<>>

\* useState(null), useRef(null), and no pointer event so far.
IdlePick ==
    /\ pickedElement = <<>>
    /\ highlightedMesh = <<>>
    /\ handlers = <<>>
    /\ hookVersion = 2

-----------------------------------------------------------------------------
(* SpecStream: one streamGeometry pass.                                    *)

InitStream ==
    /\ streamed = <<>>
    /\ groups = <<>>
    /\ fetched = <<>>
    /\ result = <<>>
    /\ spc = "streaming"
    /\ IdleBuild
    /\ IdleStore
    /\ IdlePick

\* StreamAllMeshes invokes the callback for one flat mesh.
StreamMesh ==
    /\ spc = "streaming"
    /\ \E geometries \in SeqsUpTo(PlacedGeometries, 1, 2) :
          /\ Len(streamed) + Len(geometries) <= MaxPlacements
          /\ LET expressID == NextExpressID(streamed)
                 placed == WithMatrices(expressID, geometries, Len(streamed))
                 st == StreamCallback([groups |-> groups, fetched |-> fetched],
                                      expressID, placed)
             IN  /\ streamed' = streamed \o placed
                 /\ groups' = st.groups
                 /\ fetched' = st.fetched
    /\ UNCHANGED <<result, spc, scene, gen, yields, storeVars, disposals,
                   pickVars>>

\* StreamAllMeshes has delivered every mesh: return Array.from(groups.values()).
StreamReturn ==
    /\ spc = "streaming"
    /\ result' = MapValues(groups)
    /\ spc' = "returned"
    /\ UNCHANGED <<streamed, groups, fetched, scene, gen, yields, storeVars,
                   disposals, pickVars>>

NextStream == StreamMesh \/ StreamReturn

SpecStream == InitStream /\ [][NextStream]_vars

-----------------------------------------------------------------------------
(* What the claims about streamGeometry speak of.                          *)

\* The sum of the instance counts of a list of groups.
RECURSIVE InstanceSum(_)
InstanceSum(grps) ==
    IF grps = <<>> THEN 0
    ELSE Len(Head(grps).instances) + InstanceSum(Tail(grps))

\* A valid placement: its shape payload exists and has vertices and indices.
ValidPlacement(p) ==
    /\ p.geometryExpressID # Undefined
    /\ ShapeSource(p.geometryExpressID).present
    /\ Len(ShapeSource(p.geometryExpressID).verts) # 0
    /\ Len(ShapeSource(p.geometryExpressID).indices) # 0

ValidStreamed == SelectSeq(streamed, ValidPlacement)

\* The distinct (shapeID, colorKey) pairs among the valid placements.
Identities ==
    {<<ValidStreamed[k].geometryExpressID, colorId(ValidStreamed[k].color)>> :
        k \in 1..Len(ValidStreamed)}

\* The number of GetGeometry calls made for a shape during the pass.
FetchesOfShape(shapeID) ==
    Cardinality({k \in 1..Len(fetched) :
                    fetched[k].geometryExpressID = shapeID})

\* The number of GetGeometry calls made on behalf of an identity.
FetchesOfIdentity(shapeID, id) ==
    Cardinality({k \in 1..Len(fetched) :
                    /\ fetched[k].geometryExpressID = shapeID
                    /\ fetched[k].colorId = id})

\* C1: a pass over a stream with N valid placements and D distinct
\* (shapeID, colorKey) pairs among them returns exactly D groups whose
\* instance counts sum to N.
C1_GroupsAndInstances ==
    spc = "returned" =>
        /\ Len(result) = Cardinality(Identities)
        /\ InstanceSum(result) = Len(ValidStreamed)

C1_Witness ==
    /\ spc = "returned"
    /\ Len(ValidStreamed) = 3
    /\ Cardinality(Identities) = 2
    /\ Len(result) = 2

\* C2: every shapeID that appears in a returned group was fetched with
\* GetGeometry exactly once during the pass.
C2_OneFetchPerShape ==
    spc = "returned" =>
        \A k \in 1..Len(result) :
            FetchesOfShape(result[k].geometryExpressID) = 1

\* C3: a shapeID whose payload is missing or empty is requested at most
\* once during the pass, however many placements reference it.
C3_RejectedShapeFetchedOnce ==
    \A shapeID \in ShapeIDs :
        PayloadRejected(ShapeSource(shapeID)) => FetchesOfShape(shapeID) <= 1

\* C4: every identity (shapeID, colorKey) that yields a group has exactly
\* one group in the result, and its payload was fetched exactly once.
C4_OneGroupOneFetchPerIdentity ==
    spc = "returned" =>
        \A k \in 1..Len(result) :
            /\ \A j \in 1..Len(result) :
                  (/\ result[j].geometryExpressID = result[k].geometryExpressID
                   /\ result[j].colorId = result[k].colorId) => j = k
            /\ FetchesOfIdentity(result[k].geometryExpressID,
                                 result[k].colorId) = 1

C4_Witness ==
    /\ spc = "returned"
    /\ Len(result) = 2
    /\ \E k \in 1..Len(result) : Len(result[k].instances) = 2
    /\ result[1].geometryExpressID = result[2].geometryExpressID

-----------------------------------------------------------------------------
(* SpecBuild: one buildScene generator and its consumer.                   *)

\* The geometries of the models a standalone build is fed with: two shapes
\* with a payload, uncoloured or in one of two reds that quantize alike,
\* and a shape without a payload.
BuildGeometries ==
    [geometryExpressID : {1, 2}, color : {NoColor, Red, NearRed}]
    \cup {[geometryExpressID |-> 3, color |-> NoColor]}

\* A stream in which every flat mesh places one geometry.
OnePerMesh(geometries) ==
    [k \in 1..Len(geometries) |->
        [expressID |-> ExpressIDOfMesh(k),
         geometryExpressID |-> geometries[k].geometryExpressID,
         color |-> geometries[k].color,
         matrix |-> FlatTransformation(k)]]

\* The state in which loadData calls buildScene: streamGeometry has
\* returned the groups of the model.
InitBuild ==
    /\ IdleStore
    /\ IdlePick
    /\ scene = EmptyScene
    /\ yields = [l \in Loads |-> <<>>]
    /\ disposals = <<>>
    /\ \E geometries \in SeqsUpTo(BuildGeometries, 0, MaxBuildPlacements),
          chunkSize \in 1..MaxChunkSize :
          LET pass == StreamPass([groups |-> <<>>, fetched |-> <<>>],
                                 OnePerMesh(geometries))
              grps == MapValues(pass.groups)
          IN  /\ streamed = OnePerMesh(geometries)
              /\ groups = pass.groups
              /\ fetched = pass.fetched
              /\ result = grps
              /\ spc = "returned"
              /\ \E failing \in 0..Len(grps) :
                    gen = [l \in Loads |->
                              IF l = 1
                              THEN [NewFrame(grps, 0, chunkSize)
                                       EXCEPT !.uploadThrowsAt = failing]
                              ELSE NoFrame]

\* The consumer's first gen.next().
BuildStart ==
    /\ gen[1].pc = "suspendedStart"
    /\ LET r == GenStart(gen[1], scene, 1)
       IN  /\ gen' = [gen EXCEPT ![1] = r.frame]
           /\ scene' = r.scene
           /\ yields' = [yields EXCEPT ![1] = Yielded(@, r.frame)]
    /\ UNCHANGED <<streamVars, storeVars, disposals, pickVars>>

\* The consumer takes the yielded snapshot and calls gen.next() again.
BuildNext ==
    /\ gen[1].pc \in {"yieldBuilding", "yieldFinalizing"}
    /\ LET r == GenResume(gen[1], scene)
       IN  /\ gen' = [gen EXCEPT ![1] = r.frame]
           /\ scene' = r.scene
    /\ UNCHANGED <<yields, streamVars, storeVars, disposals, pickVars>>

\* requestIdleCallback fires for a generator in its idle wait.
IdleCallback ==
    \E l \in Loads :
        /\ gen[l].pc = "idle"
        /\ LET r == GenIdle(gen[l], scene, l)
           IN  /\ gen' = [gen EXCEPT ![l] = r.frame]
               /\ scene' = r.scene
               /\ yields' = [yields EXCEPT ![l] = Yielded(@, r.frame)]
        /\ UNCHANGED <<streamVars, storeVars, disposals, pickVars>>

\* disposeScene(scene), called before the build has started or after it
\* has returned.
Dispose ==
    /\ gen[1].pc \in {"suspendedStart", "returned"}
    /\ Len(disposals) < MaxDisposals
    /\ scene' = disposeScene(scene)
    /\ disposals' = Append(disposals, gen[1].pc)
    /\ UNCHANGED <<gen, yields, streamVars, storeVars, pickVars>>

NextBuild == BuildStart \/ BuildNext \/ IdleCallback \/ Dispose

SpecBuild == InitBuild /\ [][NextBuild]_vars

-----------------------------------------------------------------------------
(* What the claims about buildScene speak of.                              *)

\* The snapshots yielded so far by the standalone build.
Ys == yields[1]

\* The snapshots whose done equals their total.
DoneEqualsTotal == {k \in 1..Len(Ys) : Ys[k].done = Ys[k].total}

Suspended(l) == gen[l].pc \in {"yieldBuilding", "idle", "yieldFinalizing"}

\* The meshes of a build that are in the scene.
MeshesOf(l) == {k \in 1..Len(scene.meshes) : scene.meshes[k].id[2] = l}

HasBatch(l, k) == \E j \in MeshesOf(l) : scene.meshes[j].id = MeshId(l, k)
BatchOf(l, k) ==
    scene.meshes[CHOOSE j \in MeshesOf(l) : scene.meshes[j].id = MeshId(l, k)]

\* The elements a mesh's metadata records, whichever field holds them.
RecordedElements(mesh) ==
    IF "expressIDs" \in DOMAIN mesh.metadata THEN mesh.metadata.expressIDs
    ELSE IF "expressID" \in DOMAIN mesh.metadata
         THEN <<mesh.metadata.expressID>>
         ELSE <<>>

ElementsOf(group) ==
    [j \in 1..Len(group.instances) |-> group.instances[j].expressID]

\* A batch on which every statement of the loop body has run for `group`.
CompleteBatch(mesh, group, l) ==
    /\ mesh.parent = gen[l].rootNode
    /\ \E j \in 1..Len(scene.materials) :
          /\ scene.materials[j].id = mesh.material
          /\ scene.materials[j].name
                = MaterialPrefix \o NumToString(group.colorId)
    /\ mesh.positions = group.positions
    /\ mesh.normals = group.normals
    /\ mesh.indices = group.indices
    /\ mesh.worldMatrixFrozen
    /\ RecordedElements(mesh) = ElementsOf(group)
    /\ mesh.metadata.modelID = gen[l].modelID
    /\ IF Len(group.instances) = 1
       THEN mesh.preTransformMatrix = group.instances[1].matrix
       ELSE /\ mesh.thinInstanceCount = Len(group.instances)
            /\ mesh.thinInstanceBuffer = MatrixBuffer(group.instances)

\* C7 (as claimed): across all snapshots of a run, the finalizing one
\* included, done never decreases from one yield to the next.
C7_DoneNeverDecreases ==
    \A k \in 1..(Len(Ys) - 1) : Ys[k].done <= Ys[k + 1].done

\* C7 (amended): across the building snapshots of a run done never
\* decreases from one yield to the next; the finalizing snapshot that
\* follows them reports done = 0 of total = 1.
C7_DoneNeverDecreasesWhileBuilding ==
    \A k \in 1..Len(Ys) :
        /\ (k > 1 /\ Ys[k].phase = "building") =>
              /\ Ys[k - 1].phase = "building"
              /\ Ys[k - 1].done <= Ys[k].done
        /\ Ys[k].phase = "finalizing" =>
              /\ k = Len(Ys)
              /\ Ys[k].done = 0
              /\ Ys[k].total = 1

C7_Witness ==
    /\ Len(Ys) = 3
    /\ Ys[1].phase = "building"
    /\ Ys[2].phase = "building"
    /\ Ys[1].done < Ys[2].done
    /\ Ys[3].phase = "finalizing"

\* C8 (as claimed): for every group list, the empty one included, a
\* completed run yielded exactly one snapshot with done = total, the
\* snapshot of the final chunk, before the finalizing one.
C8_ExactlyOneDoneEqualsTotal ==
    gen[1].pc = "returned" =>
        /\ Cardinality(DoneEqualsTotal) = 1
        /\ DoneEqualsTotal = {Len(Ys) - 1}

\* C8 (amended): for every non-empty group list a completed run yielded
\* exactly one snapshot with done = total: the building snapshot of the
\* final chunk, directly before the finalizing snapshot.  For the empty
\* list no snapshot has done = total.
C8_ExactlyOneDoneEqualsTotalIfNonEmpty ==
    gen[1].pc = "returned" =>
        IF Len(gen[1].groups) = 0
        THEN DoneEqualsTotal = {}
        ELSE /\ DoneEqualsTotal = {Len(Ys) - 1}
             /\ Ys[Len(Ys) - 1].phase = "building"
             /\ Ys[Len(Ys) - 1].done = Len(gen[1].groups)
             /\ Ys[Len(Ys)].phase = "finalizing"

C8_Witness ==
    /\ gen[1].pc = "returned"
    /\ Len(gen[1].groups) = 3
    /\ gen[1].chunkSize = 2
    /\ Len(Ys) = 3

\* The batches of the standalone build are exactly those of the first
\* `done` groups, each complete.
BatchesUpTo(done) ==
    \A k \in 1..Len(gen[1].groups) :
        IF k <= done
        THEN HasBatch(1, k) /\ CompleteBatch(BatchOf(1, k), gen[1].groups[k], 1)
        ELSE ~HasBatch(1, k)

\* C9 (as claimed): at every suspension (each yield, each idle wait) the
\* groups below the reported done have a complete batch and no group at
\* or above it has a batch.
C9_BatchesMatchReportedDone ==
    Suspended(1) => BatchesUpTo(gen[1].out.done)

\* C9 (amended): at every suspension no half-built batch is observable.
\* At a building yield and at an idle wait the groups below the reported
\* done have a complete batch and no other group has one; at the
\* finalizing yield (which reports done = 0) every group has a complete
\* batch.
C9_NoHalfBuiltBatch ==
    Suspended(1) =>
        /\ Cardinality(MeshesOf(1)) <= Len(gen[1].groups)
        /\ IF gen[1].pc = "yieldFinalizing"
           THEN BatchesUpTo(Len(gen[1].groups))
           ELSE BatchesUpTo(gen[1].out.done)

C9_Witness ==
    /\ gen[1].pc = "idle"
    /\ gen[1].out.done = 2
    /\ Len(gen[1].groups) = 3
    /\ HasBatch(1, 2)
    /\ ~HasBatch(1, 3)

\* The lookup a pick indexes by instance position: metadata.expressIDs.
ElementLookup(mesh) ==
    IF "expressIDs" \in DOMAIN mesh.metadata THEN mesh.metadata.expressIDs
    ELSE <<>>

\* C10: a group with one instance gives a singleton batch (transform set
\* directly, no instance buffer) whose elementLookup has length 1 and holds
\* that elementID; a group with k > 1 instances gives an instanced batch
\* with a buffer of k * 16 numbers and elementLookup[i] the i-th
\* instance's elementID.
C10_ModeAndLookup ==
    \A k \in 1..Len(gen[1].groups) :
        HasBatch(1, k) =>
            LET mesh == BatchOf(1, k)
                group == gen[1].groups[k]
            IN  IF Len(group.instances) = 1
                THEN /\ mesh.preTransformMatrix = group.instances[1].matrix
                     /\ mesh.thinInstanceBuffer = <<>>
                     /\ Len(ElementLookup(mesh)) = 1
                     /\ ElementLookup(mesh)[1] = group.instances[1].expressID
                ELSE /\ Len(mesh.thinInstanceBuffer)
                          = Len(group.instances) * 16
                     /\ Len(ElementLookup(mesh)) = Len(group.instances)
                     /\ \A i \in 1..Len(group.instances) :
                           ElementLookup(mesh)[i] = group.instances[i].expressID

-----------------------------------------------------------------------------
(* SpecStore: load requests to one IfcModelStore.  loadData runs up to its *)
(* next await in one step; requests may arrive while earlier loads are     *)
(* suspended.                                                              *)

Files == {"a.ifc", "empty.ifc"}

\* The placements of a dropped file: a.ifc places shape 2 once without a
\* colour and shape 1 twice in red, empty.ifc has no geometry.
FileContent(file) ==
    IF file = "a.ifc"
    THEN OnePerMesh(<<[geometryExpressID |-> 2, color |-> NoColor],
                      [geometryExpressID |-> 1, color |-> Red],
                      [geometryExpressID |-> 1, color |-> Red]>>)
    ELSE <<>>

InitStore ==
    /\ IdleStream
    /\ IdleBuild
    /\ IdleStore
    /\ IdlePick

\* An assignment to the state that notifies nobody.
SetStateSilently(next) ==
    /\ state' = next
    /\ UNCHANGED published

\* IfcModelStore.setState: assign, then notify the listeners.
SetState(next) ==
    /\ state' = next
    /\ published' = Append(published, next)

LoadingState(progress) == [status |-> "loading", progress |-> progress]

\* Vector3.TransformCoordinates with a row-major 4x4 array.
TransformCoordinates(v, m) ==
    <<v[1] * m[1] + v[2] * m[5] + v[3] * m[9] + m[13],
      v[1] * m[2] + v[2] * m[6] + v[3] * m[10] + m[14],
      v[1] * m[3] + v[2] * m[7] + v[3] * m[11] + m[15]>>

\* The vertices of a mesh, from its flat position array.
VerticesOf(positions) ==
    {<<positions[3 * k - 2], positions[3 * k - 1], positions[3 * k]>> :
        k \in 1..(Len(positions) \div 3)}

\* The componentwise minimum and maximum of a set of points.
MinOf(points) ==
    [a \in 1..3 |-> CHOOSE c \in {q[a] : q \in points} :
                        \A q \in points : c <= q[a]]
MaxOf(points) ==
    [a \in 1..3 |-> CHOOSE c \in {q[a] : q \in points} :
                        \A q \in points : c >= q[a]]

\* The eight corners of a box.
Corners(lo, hi) ==
    {<<x, y, z>> : x \in {lo[1], hi[1]}, y \in {lo[2], hi[2]},
                   z \in {lo[3], hi[3]}}

\* mesh.computeWorldMatrix(true): the pre-transform of the mesh, then the
\* scaling of its parent.  The matrix is taken as recomputed by the forced
\* call from the root as it is now.
ParentScalingZ(mesh, sc) ==
    IF \E k \in 1..Len(sc.transformNodes) :
           sc.transformNodes[k].id = mesh.parent
    THEN sc.transformNodes[CHOOSE k \in 1..Len(sc.transformNodes) :
                              sc.transformNodes[k].id = mesh.parent].scalingZ
    ELSE 1
ToWorld(mesh, sc, v) ==
    LET w == IF mesh.preTransformMatrix = <<>> THEN v
             ELSE TransformCoordinates(v, mesh.preTransformMatrix)
    IN  <<w[1], w[2], w[3] * ParentScalingZ(mesh, sc)>>

\* mesh.refreshBoundingInfo(false, false) and the bounding box read after
\* it: the extent of the mesh's own vertex positions, its corners taken to
\* the world by the mesh's world matrix.  The thin-instance matrices are
\* not part of a bounding info recomputed this way.  A mesh without
\* vertices keeps the empty box at its origin.
BoundingBoxWorld(mesh, sc) ==
    LET vertices == IF Len(mesh.positions) \div 3 = 0 THEN {<<0, 0, 0>>}
                    ELSE VerticesOf(mesh.positions)
        world == {ToWorld(mesh, sc, c) :
                     c \in Corners(MinOf(vertices), MaxOf(vertices))}
    IN  [minimumWorld |-> [a \in 1..3 |-> MinOf(world)[a] * Unit],
         maximumWorld |-> [a \in 1..3 |-> MaxOf(world)[a] * Unit]]

\* The mesh object behind a reference; a disposed mesh has left the scene
\* and has no vertices any more.
IsInScene(sc, id) == \E k \in 1..Len(sc.meshes) : sc.meshes[k].id = id
MeshOf(sc, id) ==
    sc.meshes[CHOOSE k \in 1..Len(sc.meshes) : sc.meshes[k].id = id]

\* A test that looks at the visibility only.
ContributesIfVisible(sc, id) == IsInScene(sc, id) /\ MeshOf(sc, id).isVisible

\* The negation of `!mesh.isVisible || mesh.getTotalVertices() === 0`.
Contributes(sc, id) ==
    /\ IsInScene(sc, id)
    /\ MeshOf(sc, id).isVisible
    /\ Len(MeshOf(sc, id).positions) \div 3 # 0

\* The loop of getModelBounds over the meshes, from the k-th on.
RECURSIVE BoundsLoop(_, _, _, _)
BoundsLoop(meshes, sc, k, acc) ==
    IF k > Len(meshes) THEN acc
    ELSE IF ~Contributes(sc, meshes[k])
         THEN BoundsLoop(meshes, sc, k + 1, acc)
    ELSE LET bb == BoundingBoxWorld(MeshOf(sc, meshes[k]), sc)
         IN  BoundsLoop(meshes, sc, k + 1,
                 [min |-> [a \in 1..3 |->
                              Min(acc.min[a], bb.minimumWorld[a])],
                  max |-> [a \in 1..3 |->
                              Max(acc.max[a], bb.maximumWorld[a])],
                  found |-> TRUE])

\* A diagonal measured on the ground plane only.
DiagonalOfFootprint(size) == Sqrt(size[1] * size[1] + size[2] * size[2])

\* Math.sqrt(size.x * size.x + size.y * size.y + size.z * size.z)
Diagonal(size) ==
    Sqrt(size[1] * size[1] + size[2] * size[2] + size[3] * size[3])

\* getModelBounds: None when no mesh contributed.
getModelBounds(meshes, sc) ==
    LET acc == BoundsLoop(meshes, sc, 1,
                   [min |-> <<Infinity, Infinity, Infinity>>,
                    max |-> <<-Infinity, -Infinity, -Infinity>>,
                    found |-> FALSE])
    IN  IF ~acc.found THEN None
        ELSE LET size == [a \in 1..3 |-> acc.max[a] - acc.min[a]]
             IN  Some([min |-> acc.min,
                       max |-> acc.max,
                       center |-> [a \in 1..3 |->
                                      (acc.min[a] + acc.max[a]) \div 2],
                       size |-> size,
                       diagonal |-> Diagonal(size)])

\* A framing that turns the camera to its viewing angles before it looks
\* at the meshes.
adjustCameraAnglesFirst(meshes, cam, sc) ==
    LET turned == [cam EXCEPT !.alpha = "-PI/4", !.beta = "PI/3"]
    IN  IF Len(meshes) = 0 THEN turned
        ELSE LET bounds == getModelBounds(meshes, sc)
             IN  IF bounds = None THEN turned
                 ELSE LET diagonal == bounds[1].diagonal
                      IN  [turned EXCEPT
                              !.target = bounds[1].center,
                              !.radius = (diagonal * 3) \div 2,
                              !.lowerRadiusLimit = (diagonal * 3) \div 10,
                              !.upperRadiusLimit = diagonal * 5,
                              !.wheelPrecision = diagonal \div 100]

\* adjustCameraToMeshes: with no mesh or no bounds the camera is left
\* alone; otherwise it is framed on the bounds.
adjustCameraToMeshes(meshes, cam, sc) ==
    IF Len(meshes) = 0 THEN cam
    ELSE LET bounds == getModelBounds(meshes, sc)
         IN  IF bounds = None THEN cam
             ELSE LET diagonal == bounds[1].diagonal
                  IN  [target |-> bounds[1].center,
                       radius |-> (diagonal * 3) \div 2,
                       alpha |-> "-PI/4",
                       beta |-> "PI/3",
                       lowerRadiusLimit |-> (diagonal * 3) \div 10,
                       upperRadiusLimit |-> diagonal * 5,
                       wheelPrecision |-> diagonal \div 100]

\* What one call of adjustCameraToMeshes is logged as: the meshes it was
\* given and the bounds it computed, if it got as far as computing them.
Framing(meshes, sc) ==
    [meshes |-> meshes,
     bounds |-> IF Len(meshes) = 0 THEN None ELSE getModelBounds(meshes, sc)]

\* The loads in flight: loadData was called and has neither returned nor
\* rejected.
InFlight == {l \in Loads : lpc[l] \notin {"none", "done", "caught"}}

\* The loads that have failed or hold a build whose upload will throw.
Failures ==
    {l \in Loads : \/ lpc[l] = "caught"
                   \/ gen[l].pc # "none" /\ gen[l].uploadThrowsAt # 0}

\* A handler that puts the store back to idle.
CatchAndGoIdle(l) ==
    /\ lpc' = [lpc EXCEPT ![l] = "caught"]
    /\ SetState([status |-> "idle"])

\* loadIfcFiles: loadData(...).catch(error => console.error(...)).  The
\* rejection ends in the handler; the store is not touched.
CatchRejection(l) ==
    /\ lpc' = [lpc EXCEPT ![l] = "caught"]
    /\ UNCHANGED <<state, published>>

\* loadIfcFiles -> loadData, up to its first await: with a model loaded,
\* disposeScene and the wait for the API; otherwise setState(loading) and
\* the wait for load(source).
Request ==
    \E l \in Loads, file \in Files :
        /\ lpc[l] = "none"
        /\ \A k \in 1..(l - 1) : lpc[k] # "none"
        /\ IF state.status = "ready"
           THEN /\ scene' = disposeScene(scene)
                /\ disposals' = Append(disposals, "loadData")
                /\ lpc' = [lpc EXCEPT ![l] = "awaitClose"]
                /\ lvars' = [lvars EXCEPT ![l] =
                                [source |-> file, closing |-> state.modelID]]
                /\ UNCHANGED <<state, published>>
           ELSE /\ SetState(LoadingState(<<>>))
                /\ lpc' = [lpc EXCEPT ![l] = "awaitLoad"]
                /\ lvars' = [lvars EXCEPT ![l] = [source |-> file]]
                /\ UNCHANGED <<scene, disposals>>
        /\ overlapped' = (overlapped \/ InFlight # {})
        /\ UNCHANGED <<streamVars, gen, yields, camera, framings, openModels,
                       nextModelID, pickVars>>

\* After `await WebIFC` of the dispose branch: CloseModel, setState(loading),
\* then the wait for load(source).
AfterClose ==
    \E l \in Loads :
        /\ lpc[l] = "awaitClose"
        /\ openModels' = openModels \ {lvars[l].closing}
        /\ SetState(LoadingState(<<>>))
        /\ lpc' = [lpc EXCEPT ![l] = "awaitLoad"]
        /\ UNCHANGED <<streamVars, scene, gen, yields, lvars, camera,
                       framings, overlapped,
                       nextModelID, disposals, pickVars>>

\* load(source) resolves with the id OpenModel returned; then `await WebIFC`.
AfterLoad ==
    \E l \in Loads :
        /\ lpc[l] = "awaitLoad"
        /\ lvars' = [lvars EXCEPT ![l] =
                        [source |-> lvars[l].source, modelID |-> nextModelID]]
        /\ openModels' = openModels \cup {nextModelID}
        /\ nextModelID' = nextModelID + 1
        /\ lpc' = [lpc EXCEPT ![l] = "awaitApi"]
        /\ UNCHANGED <<streamVars, scene, gen, yields, state, published,
                       camera, framings, overlapped, disposals, pickVars>>

\* With the API at hand: streamGeometry, buildScene, and the first
\* gen.next(), which runs the generator up to its first yield or to the
\* exception of a throwing upload.
AfterApi ==
    \E l \in Loads :
        /\ lpc[l] = "awaitApi"
        /\ LET grps == streamGeometry(FileContent(lvars[l].source))
           IN  \E failing \in 0..Min(1, Len(grps)) :
                   /\ failing # 0 => Cardinality(Failures) < MaxFailures
                   /\ LET r == GenStart(
                              [NewFrame(grps, lvars[l].modelID,
                                        DefaultChunkSize)
                                  EXCEPT !.uploadThrowsAt = failing],
                              scene, l)
                      IN  /\ gen' = [gen EXCEPT ![l] = r.frame]
                          /\ scene' = r.scene
                          /\ yields' = [yields EXCEPT
                                           ![l] = Yielded(@, r.frame)]
        /\ lpc' = [lpc EXCEPT ![l] = "awaitNext"]
        /\ UNCHANGED <<streamVars, state, lvars, published, camera,
                       framings, overlapped,
                       openModels, nextModelID, disposals, pickVars>>

\* `await gen.next()` has settled.  Not done: publish the snapshot and call
\* gen.next() again.  Done: take the result and call getProjectInfo.
\* Rejected: loadData rejects.
AfterNext ==
    \E l \in Loads :
        /\ lpc[l] = "awaitNext"
        /\ gen[l].pc \in {"yieldBuilding", "yieldFinalizing", "returned",
                          "threw"}
        /\ IF gen[l].pc = "threw"
           THEN /\ CatchRejection(l)
                /\ UNCHANGED <<scene, gen, lvars>>
           ELSE
           IF gen[l].pc = "returned"
           THEN /\ lvars' = [lvars EXCEPT ![l] =
                                [source |-> lvars[l].source,
                                 modelID |-> lvars[l].modelID,
                                 meshes |-> gen[l].out.meshes,
                                 rootNode |-> gen[l].out.rootNode]]
                /\ lpc' = [lpc EXCEPT ![l] = "awaitInfo"]
                /\ UNCHANGED <<scene, gen, state, published>>
           ELSE /\ SetState(LoadingState(gen[l].out))
                /\ LET r == GenResume(gen[l], scene)
                   IN  /\ gen' = [gen EXCEPT ![l] = r.frame]
                       /\ scene' = r.scene
                /\ UNCHANGED <<lvars, lpc>>
        /\ UNCHANGED <<streamVars, yields, camera,
                       framings, overlapped, openModels,
                       nextModelID, disposals, pickVars>>

\* getProjectInfo has resolved: frame the camera, publish the ready state.
AfterInfo ==
    \E l \in Loads :
        /\ lpc[l] = "awaitInfo"
        /\ camera' = IF Len(lvars[l].meshes) > 0
                     THEN adjustCameraToMeshes(lvars[l].meshes, camera, scene)
                     ELSE camera
        /\ framings' = IF Len(lvars[l].meshes) > 0
                       THEN Append(framings, Framing(lvars[l].meshes, scene))
                       ELSE framings
        /\ SetState([status |-> "ready",
                     meshes |-> lvars[l].meshes,
                     modelID |-> lvars[l].modelID,
                     rootNode |-> lvars[l].rootNode,
                     projectInfo |-> [modelID |-> lvars[l].modelID]])
        /\ lpc' = [lpc EXCEPT ![l] = "done"]
        /\ UNCHANGED <<streamVars, scene, gen, yields, lvars, overlapped,
                       openModels,
                       nextModelID, disposals, pickVars>>

\* load(source), the API promise (or streamGeometry after it) or
\* getProjectInfo fails: loadData rejects.
Reject ==
    \E l \in Loads :
        /\ lpc[l] \in {"awaitLoad", "awaitApi", "awaitInfo"}
        /\ Cardinality(Failures) < MaxFailures
        /\ CatchRejection(l)
        /\ UNCHANGED <<streamVars, scene, gen, yields, lvars, camera,
                       framings, overlapped,
                       openModels, nextModelID, disposals, pickVars>>

NextStore ==
    \/ Request
    \/ AfterClose
    \/ AfterLoad
    \/ AfterApi
    \/ AfterNext
    \/ AfterInfo
    \/ Reject
    \/ IdleCallback

SpecStore == InitStore /\ [][NextStore]_vars

-----------------------------------------------------------------------------
(* What the claims about the load sequence speak of.                       *)

\* The builds whose generator has started and not yet returned.
BuildsInProgress == {l \in Loads : Suspended(l)}

\* The builds that have an object (root, material or mesh) in the scene.
InScene(objects, l) == \E k \in 1..Len(objects) : objects[k].id[2] = l
LiveBuilds ==
    {l \in Loads : \/ InScene(scene.transformNodes, l)
                   \/ InScene(scene.materials, l)
                   \/ InScene(scene.meshes, l)}

\* C5: at most one buildScene generator is between its start and its
\* return at any time, whatever the sequence of load requests.
C5_OneBuildAtATime == Cardinality(BuildsInProgress) <= 1

\* C6: at most one built (complete or partial) scene model is live in the
\* scene at any time: when a build has objects in the scene, every object
\* of every other build has been disposed.
C6_OneLiveModel == Cardinality(LiveBuilds) <= 1

-----------------------------------------------------------------------------
(* hooks/useIfcPicking: scene.onPointerDown.  The file holds two versions  *)
(* of the hook; the first reads metadata.expressID, the second looks the   *)
(* element up in metadata.expressIDs by pickResult.thinInstanceIndex.      *)

\* An optional value: <<>> is undefined, <<v>> is the value v.

\* The loadData consumer loop run to the generator's return; `yielded`
\* collects the snapshots on the way.
RECURSIVE RunToReturn(_, _)
RunToReturn(fs, load) ==
    LET f == fs.frame
        Next(r) == [frame |-> r.frame, scene |-> r.scene,
                    yielded |-> Yielded(fs.yielded, r.frame)]
    IN  IF f.pc \in {"returned", "threw"} THEN fs
        ELSE IF f.pc = "suspendedStart"
             THEN RunToReturn(Next(GenStart(f, fs.scene, load)), load)
        ELSE IF f.pc = "idle"
             THEN RunToReturn(Next(GenIdle(f, fs.scene, load)), load)
        ELSE LET r == GenResume(f, fs.scene)
             IN  RunToReturn([frame |-> r.frame, scene |-> r.scene,
                              yielded |-> fs.yielded], load)

\* mesh?.metadata of the picked mesh (null when nothing was hit).
MetadataOfPick(sc, pickResult) ==
    IF pickResult.hit
       /\ \E k \in 1..Len(sc.meshes) : sc.meshes[k].id = pickResult.pickedMesh
    THEN sc.meshes[CHOOSE k \in 1..Len(sc.meshes) :
                      sc.meshes[k].id = pickResult.pickedMesh].metadata
    ELSE <<>>

\* First version: metadata?.expressID
ResolveByExpressID(metadata) ==
    IF "expressID" \in DOMAIN metadata THEN Some(metadata.expressID) ELSE None

\* A lookup that ignores the hit's instance index.
ResolveFirstOfLookup(metadata, thinInstanceIndex) ==
    IF "expressIDs" \in DOMAIN metadata /\ Len(metadata.expressIDs) > 0
    THEN Some(metadata.expressIDs[1])
    ELSE None

\* Second version: metadata?.expressIDs?.[pickResult.thinInstanceIndex ?? 0]
ResolveByLookup(metadata, thinInstanceIndex) ==
    LET index == IF thinInstanceIndex = None THEN 0 ELSE thinInstanceIndex[1]
    IN  IF /\ "expressIDs" \in DOMAIN metadata
           /\ index >= 0
           /\ index < Len(metadata.expressIDs)
        THEN Some(metadata.expressIDs[index + 1])
        ELSE None

\* The expressID the mounted version of the handler works with.
ResolvedExpressID(version, metadata, thinInstanceIndex) ==
    IF version = 1 THEN ResolveByExpressID(metadata)
    ELSE ResolveByLookup(metadata, thinInstanceIndex)

\* metadata?.modelID
ResolvedModelID(metadata) ==
    IF "modelID" \in DOMAIN metadata THEN Some(metadata.modelID) ELSE None

\* mesh.renderOverlay = on, for the mesh object with this id.
SetRenderOverlay(sc, id, on) ==
    [sc EXCEPT !.meshes =
        [k \in 1..Len(@) |->
            IF @[k].id = id THEN [@[k] EXCEPT !.renderOverlay = on]
            ELSE @[k]]]

\* The instance indices a pickResult can carry: none (undefined), the
\* engine's -1 for "no thin instance", or an index.
ThinInstanceIndices == {None} \cup {Some(i) : i \in -1..2}

\* The pickResults of a pointer event: a miss, or a hit on a mesh.
PickResults(sc) ==
    {[hit |-> FALSE, pickedMesh |-> NoRef, thinInstanceIndex |-> Some(-1)]}
    \cup [hit : {TRUE},
          pickedMesh : {sc.meshes[k].id : k \in 1..Len(sc.meshes)},
          thinInstanceIndex : ThinInstanceIndices]

-----------------------------------------------------------------------------
(* SpecPick: pointer-down events on the scene of a completed build.  The   *)
(* handler runs up to its next await in one step.  A pickResult is the     *)
(* engine's; the handler is applied to every hit it can be handed.         *)

\* The models the picked scenes are built from: one element placing
\* shape 2; three elements, the first and the third placing shape 1 in
\* red; three elements all placing shape 1 in red; two elements placing
\* different shapes (two singleton meshes); four elements placing two
\* shapes twice each (two instanced batches).
PickModels ==
    LET a == [geometryExpressID |-> 1, color |-> Red]
        b == [geometryExpressID |-> 2, color |-> NoColor]
    IN  {<<b>>, <<a, b, a>>, <<a, a, a>>, <<a, b>>, <<a, a, b, b>>}

\* evt.button: 0 is the primary button.
Buttons == {0, 2}

InitPick ==
    /\ IdleStream
    /\ IdleStore
    /\ disposals = <<>>
    /\ pickedElement = None
    /\ highlightedMesh = NoRef
    /\ handlers = <<>>
    /\ hookVersion \in {1, 2}
    /\ \E geometries \in PickModels :
          LET built == RunToReturn(
                  [frame |-> NewFrame(streamGeometry(OnePerMesh(geometries)),
                                      0, DefaultChunkSize),
                   scene |-> EmptyScene, yielded |-> <<>>], 1)
          IN  /\ scene = built.scene
              /\ gen = [l \in Loads |-> IF l = 1 THEN built.frame ELSE NoFrame]
              /\ yields = [l \in Loads |->
                              IF l = 1 THEN built.yielded ELSE <<>>]

\* A test that is content with a model at hand.
ResolvedWithModel(expressID, modelID) == modelID # None

\* expressID !== undefined && modelID !== undefined
Resolved(expressID, modelID) == expressID # None /\ modelID # None

\* A call of the web-ifc API, as a handler's log keeps it.
GetLineCall(modelID, expressID) ==
    [fn |-> "GetLine", modelID |-> modelID, expressID |-> expressID]
GetNameFromTypeCodeCall == [fn |-> "GetNameFromTypeCode"]

\* onPointerDown up to its first await: the button test, the highlight
\* reset, the resolution; with an element at hand the wait for the API,
\* otherwise setPickedElement(null).
PointerDown ==
    /\ Len(handlers) < MaxPointerEvents
    /\ \E button \in Buttons, pickResult \in PickResults(scene) :
          LET metadata == MetadataOfPick(scene, pickResult)
              expressID == ResolvedExpressID(hookVersion, metadata,
                                             pickResult.thinInstanceIndex)
              modelID == ResolvedModelID(metadata)
              resolved == Resolved(expressID, modelID)
              h == [button |-> button,
                    mesh |-> IF pickResult.hit THEN pickResult.pickedMesh
                             ELSE NoRef,
                    thinInstanceIndex |-> pickResult.thinInstanceIndex,
                    expressID |-> expressID, modelID |-> modelID,
                    calls |-> <<>>, pc |-> "done"]
          IN  IF button # 0
              THEN /\ handlers' = Append(handlers,
                          [h EXCEPT !.expressID = None, !.modelID = None])
                   /\ UNCHANGED <<scene, highlightedMesh, pickedElement>>
              ELSE /\ scene' = IF highlightedMesh # NoRef
                               THEN SetRenderOverlay(scene, highlightedMesh,
                                                     FALSE)
                               ELSE scene
                   /\ highlightedMesh' = NoRef
                   /\ IF resolved
                      THEN /\ handlers' = Append(handlers,
                                  [h EXCEPT !.pc = "awaitApiForLine"])
                           /\ UNCHANGED pickedElement
                      ELSE /\ handlers' = Append(handlers, h)
                           /\ pickedElement' = None
    /\ UNCHANGED <<streamVars, storeVars, gen, yields, disposals, hookVersion>>

\* `await WebIFC` has settled: GetLine is called and returns the element,
\* and the handler waits for the API again; or it throws and the catch
\* block runs.
AfterLineApi ==
    \E k \in 1..Len(handlers), thrown \in BOOLEAN :
        /\ handlers[k].pc = "awaitApiForLine"
        /\ IF thrown
           THEN /\ handlers' = [handlers EXCEPT
                                   ![k].pc = "done",
                                   ![k].calls = Append(@, GetLineCall(
                                       handlers[k].modelID,
                                       handlers[k].expressID))]
                /\ pickedElement' = None
           ELSE /\ handlers' = [handlers EXCEPT
                                   ![k].pc = "awaitApiForName",
                                   ![k].calls = Append(@, GetLineCall(
                                       handlers[k].modelID,
                                       handlers[k].expressID))]
                /\ UNCHANGED pickedElement
        /\ UNCHANGED <<streamVars, storeVars, scene, gen, yields, disposals,
                       highlightedMesh, hookVersion>>

\* The second `await WebIFC` has settled: GetNameFromTypeCode, the overlay,
\* highlightedMesh.current and setPickedElement; or the catch block.
AfterNameApi ==
    \E k \in 1..Len(handlers), thrown \in BOOLEAN :
        /\ handlers[k].pc = "awaitApiForName"
        /\ handlers' = [handlers EXCEPT
                           ![k].pc = "done",
                           ![k].calls = Append(@, GetNameFromTypeCodeCall)]
        /\ IF thrown
           THEN /\ pickedElement' = None
                /\ UNCHANGED <<scene, highlightedMesh>>
           ELSE /\ scene' = SetRenderOverlay(scene, handlers[k].mesh, TRUE)
                /\ highlightedMesh' = handlers[k].mesh
                /\ pickedElement' =
                       Some([expressID |-> handlers[k].expressID[1]])
        /\ UNCHANGED <<streamVars, storeVars, gen, yields, disposals,
                       hookVersion>>

NextPick == PointerDown \/ AfterLineApi \/ AfterNameApi

SpecPick == InitPick /\ [][NextPick]_vars

-----------------------------------------------------------------------------
(* What the claims about pick resolution speak of.                         *)

\* The group a batch was built from: the k-th mesh of a build is made from
\* the k-th group.
GroupOfBatch(id) == gen[id[2]].groups[id[3]]

\* The handlers that got a primary-button hit on a batch.
HitHandlers == {k \in 1..Len(handlers) :
                   handlers[k].button = 0 /\ handlers[k].mesh # NoRef}

\* The instance index of a hit, an absent one counting as 0.
IndexOfHit(h) ==
    IF h.thinInstanceIndex = None THEN 0 ELSE h.thinInstanceIndex[1]

InRange(h) ==
    /\ IndexOfHit(h) >= 0
    /\ IndexOfHit(h) < Len(GroupOfBatch(h.mesh).instances)

\* C11: pick round trip.  For every batch of a build (singleton or
\* instanced) and every instance index within the batch's range, the
\* handler resolves the hit to the elementID the build placed at that
\* index.
C11_PickRoundTrip ==
    \A k \in HitHandlers :
        InRange(handlers[k]) =>
            handlers[k].expressID =
                Some(GroupOfBatch(handlers[k].mesh)
                        .instances[IndexOfHit(handlers[k]) + 1].expressID)

\* What a primary-button event that hits nothing leaves behind: the old
\* highlight cleared and pickedElement null.
NothingPicked ==
    [scene |-> IF highlightedMesh # NoRef
               THEN SetRenderOverlay(scene, highlightedMesh, FALSE)
               ELSE scene,
     highlightedMesh |-> NoRef,
     pickedElement |-> None]

\* A step in which the handler takes a hit on an instanced batch whose
\* instance index lies outside [0, elementLookup.length).
OutOfRangePick ==
    /\ Len(handlers') = Len(handlers) + 1
    /\ LET h == handlers'[Len(handlers')]
       IN  /\ h.button = 0
           /\ h.mesh # NoRef
           /\ Len(GroupOfBatch(h.mesh).instances) > 1
           /\ h.thinInstanceIndex # None
           /\ ~InRange(h)

C13_SingletonIgnoresIndex ==
    \A k \in HitHandlers :
        Len(GroupOfBatch(handlers[k].mesh).instances) = 1 =>
            handlers[k].expressID =
                Some(GroupOfBatch(handlers[k].mesh).instances[1].expressID)

-----------------------------------------------------------------------------
(* What the claims about failures during the build speak of.               *)

\* C14: a group whose vertex upload fails is non-fatal: the build does not
\* end in the exception, and once it has returned every other group has
\* its complete batch.
C14_UploadFailureIsNonFatal ==
    gen[1].pc # "none" /\ gen[1].uploadThrowsAt # 0 =>
        /\ gen[1].pc # "threw"
        /\ gen[1].pc = "returned" =>
              \A k \in 1..Len(gen[1].groups) :
                  k # gen[1].uploadThrowsAt =>
                      /\ HasBatch(1, k)
                      /\ CompleteBatch(BatchOf(1, k), gen[1].groups[k], 1)

\* The stats a build over a group list returns.
StatsOfBuild(grps, chunkSize) ==
    RunToReturn([frame |-> NewFrame(grps, 0, chunkSize),
                 scene |-> EmptyScene, yielded |-> <<>>], 1).frame.out.stats

\* The placements streamGeometry dropped for a missing or empty shape.
DroppedPlacements ==
    {k \in 1..Len(streamed) :
        /\ streamed[k].geometryExpressID # Undefined
        /\ PayloadRejected(ShapeSource(streamed[k].geometryExpressID))}

\* C15: every dropped group is recorded in the stats the build returns:
\* the stats of a model with a dropped placement differ from the stats of
\* the same model without the dropped placements.
C15_DroppedGroupsAreRecorded ==
    gen[1].pc = "returned" /\ DroppedPlacements # {} =>
        gen[1].out.stats
            # StatsOfBuild(streamGeometry(ValidStreamed), gen[1].chunkSize)

-----------------------------------------------------------------------------
(* What the claims about skipped placements speak of.                      *)

\* C16: a placement whose shape payload is absent or has zero vertices or
\* zero indices produces no group and contributes no instance, and the
\* pass goes on: the groups are those of the same stream without the bad
\* placements, during the pass and in the returned array.
C16_BadPlacementsAreSkipped ==
    /\ \A k \in DroppedPlacements :
          \A j \in 1..Len(groups) :
              /\ groups[j].value.geometryExpressID
                    # streamed[k].geometryExpressID
              /\ \A i \in 1..Len(groups[j].value.instances) :
                    groups[j].value.instances[i].matrix # streamed[k].matrix
    /\ MapValues(groups) = streamGeometry(ValidStreamed)
    /\ spc = "returned" => result = streamGeometry(ValidStreamed)

C16_Witness ==
    /\ spc = "returned"
    /\ Len(streamed) = 3
    /\ 1 \in DroppedPlacements
    /\ Len(ShapeSource(streamed[1].geometryExpressID).verts) = 0
    /\ ShapeSource(streamed[1].geometryExpressID).present
    /\ Len(result) = 1
    /\ Len(result[1].instances) = 2

-----------------------------------------------------------------------------
(* What the claims about disposeScene speak of.                            *)

\* The number of disposeScene calls made since the standalone build
\* returned.
DisposalsAfterBuild ==
    Cardinality({k \in 1..Len(disposals) : disposals[k] = "returned"})

\* C17: after disposeScene has run on the scene of a completed build,
\* nothing of the build remains: no material, no batch, no root transform.
C17_NothingRemainsAfterDispose ==
    DisposalsAfterBuild = 1 =>
        /\ ~InScene(scene.materials, 1)
        /\ ~InScene(scene.meshes, 1)
        /\ ~InScene(scene.transformNodes, 1)

\* C18: disposeScene is idempotent: on a scene with no live model (before
\* any build has completed, or right after a previous dispose) a call
\* changes nothing in the scene.
C18_DisposeIsIdempotent ==
    [][(Dispose /\ (gen[1].pc = "suspendedStart" \/ DisposalsAfterBuild >= 1))
          => scene' = scene]_vars

-----------------------------------------------------------------------------
(* What the claims about materials speak of.                               *)

\* The materials of the standalone build that are in the scene.
MaterialsOf(l) == {k \in 1..Len(scene.materials) : scene.materials[k].id[2] = l}

\* The groups the standalone build has gone through so far.
GroupsBuilt == 1..Len(gen[1].finalMeshes)

\* C19: within one run at most one material is created per colorKey, and
\* every group with the same colorKey is assigned that same material; two
\* colours that quantize identically get the same material.
C19_OneMaterialPerColorKey ==
    gen[1].pc # "none" =>
        /\ \A i, j \in 1..Len(gen[1].materialCache) :
              gen[1].materialCache[i].key = gen[1].materialCache[j].key
                  => i = j
        /\ \A i, j \in MaterialsOf(1) :
              scene.materials[i].name = scene.materials[j].name => i = j
        /\ \A k \in GroupsBuilt :
              HasBatch(1, k) =>
                  /\ BatchOf(1, k).material
                        = CacheGet(gen[1].materialCache,
                                   gen[1].groups[k].colorId)
                  /\ \A j \in GroupsBuilt :
                        (/\ HasBatch(1, j)
                         /\ colorId(gen[1].groups[j].color)
                               = colorId(gen[1].groups[k].color))
                            => BatchOf(1, j).material = BatchOf(1, k).material

C19_Witness ==
    /\ gen[1].pc = "returned"
    /\ Len(gen[1].groups) = 2
    /\ gen[1].groups[1].color = Red
    /\ gen[1].groups[2].color = NearRed
    /\ Cardinality(MaterialsOf(1)) = 1
    /\ HasBatch(1, 1) /\ HasBatch(1, 2)
    /\ BatchOf(1, 1).material = BatchOf(1, 2).material

\* The position (from 0) of the first group with a colorKey: the group
\* whose processing creates the material of that key.
FirstGroupOf(id) ==
    CHOOSE g \in 1..Len(gen[1].groups) :
        /\ gen[1].groups[g].colorId = id
        /\ \A j \in 1..(g - 1) : gen[1].groups[j].colorId # id

\* C20 (as claimed): the k-th material newly created in a build (k from 0)
\* has depth bias k steps of 0.05 modulo 1.0, however many groups reuse
\* cached materials in between.
C20_BiasStepsPerCreatedMaterial ==
    \A m \in MaterialsOf(1) :
        \A k \in 1..Len(gen[1].materialCache) :
            scene.materials[m].id = MaterialId(1, k) =>
                scene.materials[m].zOffset = (k - 1) % ZOffsetSteps

\* C20 (amended): the depth bias advances one step of 0.05 (modulo 1.0) per
\* group processed, whether or not the group creates a material: the
\* material created for the group at position g (from 0, in deduplication
\* order) has depth bias g steps, and after n groups the bias stands at n
\* steps.
C20_BiasStepsPerGroup ==
    gen[1].pc # "none" =>
        /\ \A m \in MaterialsOf(1) :
              \A k \in 1..Len(gen[1].materialCache) :
                  scene.materials[m].id = MaterialId(1, k) =>
                      scene.materials[m].zOffset =
                          (FirstGroupOf(gen[1].materialCache[k].key) - 1)
                              % ZOffsetSteps
        /\ gen[1].pc # "threw" =>
              gen[1].zOffset = Len(gen[1].finalMeshes) % ZOffsetSteps

C20_Witness ==
    /\ gen[1].pc = "returned"
    /\ Len(gen[1].groups) = 3
    /\ gen[1].groups[1].colorId = gen[1].groups[2].colorId
    /\ gen[1].groups[3].colorId # gen[1].groups[1].colorId
    /\ \E m \in MaterialsOf(1) :
          /\ scene.materials[m].id = MaterialId(1, 2)
          /\ scene.materials[m].zOffset = 2

-----------------------------------------------------------------------------
(* getModelBounds and adjustCameraToMeshes on their own: a scene of up to  *)
(* MaxBoundsMeshes meshes, framed by calls of adjustCameraToMeshes.        *)

\* The meshes of the scene: three unit boxes, a large invisible box and a
\* visible mesh without vertices.
BoundsMeshKinds ==
    {[lo |-> <<0, 0, 0>>, hi |-> <<1, 1, 1>>, isVisible |-> TRUE,
      hasVertices |-> TRUE],
     [lo |-> <<2, 0, 0>>, hi |-> <<3, 1, 1>>, isVisible |-> TRUE,
      hasVertices |-> TRUE],
     [lo |-> <<0, 2, 0>>, hi |-> <<1, 3, 1>>, isVisible |-> TRUE,
      hasVertices |-> TRUE],
     [lo |-> <<-4, -4, -4>>, hi |-> <<4, 4, 4>>, isVisible |-> FALSE,
      hasVertices |-> TRUE],
     [lo |-> <<-4, -4, -4>>, hi |-> <<4, 4, 4>>, isVisible |-> TRUE,
      hasVertices |-> FALSE]}

BoundsMesh(k, kind) ==
    [NewMesh(MeshId(1, k), MeshPrefix \o ToString(k)) EXCEPT
        !.isVisible = kind.isVisible,
        !.positions = IF kind.hasVertices THEN kind.lo \o kind.hi ELSE <<>>]

InitBounds ==
    /\ \E kinds \in SeqsUpTo(BoundsMeshKinds, 0, MaxBoundsMeshes) :
           scene = [EmptyScene EXCEPT
                       !.meshes = [k \in 1..Len(kinds) |->
                                      BoundsMesh(k, kinds[k])]]
    /\ gen = [l \in Loads |-> NoFrame]
    /\ yields = [l \in Loads |-> <<>>]
    /\ disposals = <<>>
    /\ IdleStream
    /\ IdleStore
    /\ IdlePick

\* A caller frames the camera on the meshes of the scene.
FrameCamera ==
    /\ Len(framings) < MaxFramings
    /\ LET meshes == [k \in 1..Len(scene.meshes) |-> scene.meshes[k].id]
       IN  /\ camera' = adjustCameraToMeshes(meshes, camera, scene)
           /\ framings' = Append(framings, Framing(meshes, scene))
    /\ UNCHANGED <<streamVars, scene, gen, yields, state, lpc, lvars,
                   published, overlapped, openModels, nextModelID, disposals,
                   pickVars>>

NextBounds == FrameCamera

SpecBounds == InitBounds /\ [][NextBounds]_vars

-----------------------------------------------------------------------------
(* What the claims about the axis flip speak of.                           *)

\* Whether the root of a load is in the scene, and its z scale.
HasRoot(sc, l) ==
    \E k \in 1..Len(sc.transformNodes) : sc.transformNodes[k].id = RootId(l)
RootScalingZ(sc, l) ==
    sc.transformNodes[CHOOSE k \in 1..Len(sc.transformNodes) :
                         sc.transformNodes[k].id = RootId(l)].scalingZ

\* Every group of the load has gone through the builder.
AllGroupsBuilt(l) == Len(gen[l].finalMeshes) = Len(gen[l].groups)

\* The z scale of a load's root is the flipped one exactly when the
\* generator has returned; the camera is framed (after getProjectInfo) with
\* the generator returned.
FlipState ==
    \A l \in Loads :
        /\ HasRoot(scene, l) =>
              /\ RootScalingZ(scene, l) \in {1, -1}
              /\ RootScalingZ(scene, l) = -1 <=> gen[l].pc = "returned"
        /\ gen[l].pc = "returned" => AllGroupsBuilt(l)
        /\ lpc[l] \in {"awaitInfo", "done"} => gen[l].pc = "returned"

\* The z scale of a load's root changes in one step only: the one that
\* takes the generator from the finalizing yield to its return, with every
\* group built, and it goes from 1 to -1.
FlipStep ==
    \A l \in Loads :
        (/\ HasRoot(scene, l)
         /\ HasRoot(scene', l)
         /\ RootScalingZ(scene', l) # RootScalingZ(scene, l)) =>
            /\ gen[l].pc = "yieldFinalizing"
            /\ gen'[l].pc = "returned"
            /\ AllGroupsBuilt(l)
            /\ RootScalingZ(scene, l) = 1
            /\ RootScalingZ(scene', l) = -1

\* C21: in every load the z flip is applied to the root transform exactly
\* once, only after every group of every chunk has been built, and before
\* the bounds are computed for the camera.
C21_FlipOnceAfterBuildBeforeBounds == []FlipState /\ [][FlipStep]_vars

C21_Witness ==
    /\ lpc[1] = "done"
    /\ Len(gen[1].groups) = 2
    /\ HasRoot(scene, 1)
    /\ RootScalingZ(scene, 1) = -1
    /\ Len(framings) = 1
    /\ framings[1].bounds # None

-----------------------------------------------------------------------------
(* What the claims about the bounds speak of.                              *)

\* The meshes of a list that are visible and have vertices.
VisibleWithVertices(meshes) ==
    {k \in 1..Len(scene.meshes) :
        /\ \E i \in 1..Len(meshes) : meshes[i] = scene.meshes[k].id
        /\ scene.meshes[k].isVisible
        /\ Len(scene.meshes[k].positions) >= 3}

\* The world positions of the vertices of the meshes of a set, for meshes
\* that stand in the world as they are.
WorldVerticesOf(ks) ==
    UNION {{[a \in 1..3 |-> v[a] * Unit] :
               v \in VerticesOf(scene.meshes[k].positions)} : k \in ks}

\* The calls that got as far as computing bounds.
BoundsCalls == {c \in 1..Len(framings) : Len(framings[c].meshes) > 0}

\* C22: the bounds are none exactly when no mesh of the list is visible
\* with vertices, and the minimum and maximum are those of the visible
\* meshes with vertices alone.
C22_BoundsOfContributingOnly ==
    \A c \in BoundsCalls :
        LET ks == VisibleWithVertices(framings[c].meshes)
            bounds == framings[c].bounds
        IN  /\ bounds = None <=> ks = {}
            /\ bounds # None =>
                  /\ bounds[1].min = MinOf(WorldVerticesOf(ks))
                  /\ bounds[1].max = MaxOf(WorldVerticesOf(ks))

C22_Witness ==
    \E c \in BoundsCalls :
        /\ framings[c].bounds # None
        /\ Len(framings[c].meshes) = 3
        /\ Cardinality(VisibleWithVertices(framings[c].meshes)) = 1
        /\ \E k \in 1..Len(scene.meshes) :
              ~scene.meshes[k].isVisible
        /\ \E k \in 1..Len(scene.meshes) :
              scene.meshes[k].isVisible /\ scene.meshes[k].positions = <<>>

\* A step in which adjustCameraToMeshes is called.
FramingStep == Len(framings') = Len(framings) + 1

\* C23: a call of adjustCameraToMeshes with an empty list, or with a list
\* for which the bounds are none, leaves target, radius, alpha, beta, the
\* radius limits and the wheel precision of the camera as they were.
C23_NoBoundsNoReframing ==
    [][(/\ FramingStep
        /\ \/ framings'[Len(framings')].meshes = <<>>
           \/ framings'[Len(framings')].bounds = None)
       => camera' = camera]_vars

C23_Witness ==
    /\ Len(framings) = 1
    /\ Len(framings[1].meshes) = 2
    /\ framings[1].bounds = None
    /\ camera = createDefaultCamera

\* The calls whose contributing meshes are the boxes (0,0,0)-(1,1,1),
\* (2,0,0)-(3,1,1) and (0,2,0)-(1,3,1).
ThreeBoxCalls ==
    {c \in BoundsCalls :
        {scene.meshes[k].positions :
            k \in VisibleWithVertices(framings[c].meshes)}
        = {<<0, 0, 0, 1, 1, 1>>, <<2, 0, 0, 3, 1, 1>>, <<0, 2, 0, 1, 3, 1>>}}

\* C24: for the three boxes the center is (1.5, 1.5, 0.5) and the diagonal
\* is 3.5, to the first decimal.
C24_CenterAndDiagonalAsStated ==
    \A c \in ThreeBoxCalls :
        /\ framings[c].bounds # None
        /\ framings[c].bounds[1].center = <<1500, 1500, 500>>
        /\ framings[c].bounds[1].diagonal \in 3450..3550

\* C24, amended: for the three boxes the center is (1.5, 1.5, 0.5), the
\* size (3, 3, 1) and the diagonal the square root of 19, 4.36 to the
\* second decimal.
C24_CenterAndDiagonalOfThreeBoxes ==
    \A c \in ThreeBoxCalls :
        /\ framings[c].bounds # None
        /\ framings[c].bounds[1].center = <<1500, 1500, 500>>
        /\ framings[c].bounds[1].size = <<3000, 3000, 1000>>
        /\ framings[c].bounds[1].diagonal \in 4355..4364

C24_Witness ==
    /\ ThreeBoxCalls # {}
    /\ camera.target = <<1500, 1500, 500>>

\* The matrix of the i-th thin instance of a mesh.
InstanceMatrix(mesh, i) ==
    SubSeq(mesh.thinInstanceBuffer, 16 * (i - 1) + 1, 16 * i)

\* Where the vertices of a mesh are drawn in the world under its i-th
\* instance transform.
InstanceWorldVertices(mesh, i) ==
    {LET w == TransformCoordinates(v, InstanceMatrix(mesh, i))
     IN  <<w[1] * Unit, w[2] * Unit,
           w[3] * ParentScalingZ(mesh, scene) * Unit>> :
        v \in VerticesOf(mesh.positions)}

Encloses(bounds, point) ==
    \A a \in 1..3 : bounds.min[a] <= point[a] /\ point[a] <= bounds.max[a]

\* The instanced meshes of a call's list that are in the scene, visible and
\* with vertices.
InstancedContributors(c) ==
    {k \in VisibleWithVertices(framings[c].meshes) :
        scene.meshes[k].thinInstanceCount > 0}

\* C25: the bounds a framing call computed enclose the geometry of every
\* contributing instanced mesh under each of its instance transforms.
C25_BoundsEncloseEveryInstance ==
    \A c \in BoundsCalls :
        (/\ c = Len(framings)
         /\ framings[c].bounds # None) =>
            \A k \in InstancedContributors(c) :
                \A i \in 1..scene.meshes[k].thinInstanceCount :
                    \A point \in InstanceWorldVertices(scene.meshes[k], i) :
                        Encloses(framings[c].bounds[1], point)

-----------------------------------------------------------------------------
(* What the claim about the metadata calls speaks of.                      *)

\* C26: a handler calls GetLine or GetNameFromTypeCode only for a primary
\* button on a hit whose resolution produced an element and a model; it
\* calls GetLine with them first, and GetNameFromTypeCode after it.
C26_MetadataOnlyAfterResolution ==
    \A k \in 1..Len(handlers) :
        LET h == handlers[k]
        IN  /\ h.calls # <<>> =>
                  /\ h.button = 0
                  /\ h.mesh # NoRef
                  /\ h.expressID # None
                  /\ h.modelID # None
                  /\ h.calls[1] = [fn |-> "GetLine", modelID |-> h.modelID,
                                   expressID |-> h.expressID]
            /\ Len(h.calls) <= 2
            /\ Len(h.calls) = 2 => h.calls[2].fn = "GetNameFromTypeCode"
            /\ h.pc = "awaitApiForLine" => h.calls = <<>>

C26_Witness ==
    \E j, k \in 1..Len(handlers) :
        /\ handlers[j].button = 0
        /\ handlers[j].mesh # NoRef
        /\ handlers[j].expressID = None
        /\ handlers[j].calls = <<>>
        /\ handlers[j].pc = "done"
        /\ Len(handlers[k].calls) = 2
        /\ handlers[k].pc = "done"

-----------------------------------------------------------------------------
(* SpecColor: a pass of streamGeometry over elements that place one shape  *)
(* in colours around the steps of the quantization.                        *)

ColoredGeometries ==
    [geometryExpressID : {1},
     color : {NoColor, Red, NearRed, AlmostRed, TransparentBlack}]

\* StreamAllMeshes invokes the callback for a flat mesh of one geometry.
StreamColoredMesh ==
    /\ spc = "streaming"
    /\ Len(streamed) < MaxPlacements
    /\ \E geometry \in ColoredGeometries :
          LET expressID == NextExpressID(streamed)
              placed == WithMatrices(expressID, <<geometry>>, Len(streamed))
              st == StreamCallback([groups |-> groups, fetched |-> fetched],
                                   expressID, placed)
          IN  /\ streamed' = streamed \o placed
              /\ groups' = st.groups
              /\ fetched' = st.fetched
    /\ UNCHANGED <<result, spc, scene, gen, yields, storeVars, disposals,
                   pickVars>>

NextColor == StreamColoredMesh \/ StreamReturn

SpecColor == InitStream /\ [][NextColor]_vars

\* The entry of the Map that holds the instance of an element.
GroupOfElement(expressID) ==
    CHOOSE g \in 1..Len(groups) :
        \E i \in 1..Len(groups[g].value.instances) :
            groups[g].value.instances[i].expressID = expressID

\* Two colours whose channels differ by a thousandth at most, a quarter of
\* the quantization step 1/255.
WithinRounding(c, d) ==
    \A a \in 1..4 : c[a] - d[a] \in -1..1

\* C27: two placements of a shape whose colours differ by less than the
\* quantization step in every channel get the same colour key and are
\* instances of the same group.
C27_RoundingErrorKeepsTheKey ==
    \A i, j \in 1..Len(streamed) :
        (/\ streamed[i].color # NoColor
         /\ streamed[j].color # NoColor
         /\ WithinRounding(streamed[i].color, streamed[j].color)) =>
            /\ colorId(streamed[i].color) = colorId(streamed[j].color)
            /\ GroupOfElement(streamed[i].expressID)
                   = GroupOfElement(streamed[j].expressID)

\* C28: a placement with a colour never gets the key 0 of the absent
\* colour, and is never an instance of the group of an uncoloured placement
\* of the same shape.
C28_ColorNeverCollidesWithNoColor ==
    \A i, j \in 1..Len(streamed) :
        (/\ streamed[i].color # NoColor
         /\ streamed[j].color = NoColor) =>
            /\ colorId(streamed[i].color) # colorId(NoColor)
            /\ GroupOfElement(streamed[i].expressID)
                   # GroupOfElement(streamed[j].expressID)

-----------------------------------------------------------------------------
(* What the claim about the order of groups and instances speaks of.       *)

\* The valid placements streamed so far that have the identity of a group.
PlacementsOf(group) ==
    LET Mine(p) == /\ ValidPlacement(p)
                   /\ p.geometryExpressID = group.geometryExpressID
                   /\ colorId(p.color) = group.colorId
    IN  SelectSeq(streamed, Mine)

\* The position in the stream of the first valid placement of a group.
FirstOccurrence(group) ==
    CHOOSE k \in 1..Len(streamed) :
        /\ streamed[k] = PlacementsOf(group)[1]
        /\ \A j \in 1..(k - 1) : streamed[j] # PlacementsOf(group)[1]

\* C29: the groups stand in the order in which their identities first
\* occur in the stream, and the instances of a group are its placements in
\* stream order, each with the ID of the element that placed it; the pass
\* returns the groups in that order.
C29_OrderIsStreamOrder ==
    LET vals == MapValues(groups)
    IN  /\ \A g \in 1..Len(vals) :
              LET mine == PlacementsOf(vals[g])
              IN  vals[g].instances =
                      [i \in 1..Len(mine) |->
                          [expressID |-> mine[i].expressID,
                           matrix |-> mine[i].matrix]]
        /\ \A g, h \in 1..Len(vals) :
              g < h => FirstOccurrence(vals[g]) < FirstOccurrence(vals[h])
        /\ spc = "returned" => result = vals

C29_Witness ==
    /\ spc = "returned"
    /\ Len(result) = 2
    /\ Len(streamed) = 3
    /\ Len(result[1].instances) = 2
    /\ result[1].instances[1].expressID < result[2].instances[1].expressID
    /\ result[2].instances[1].expressID < result[1].instances[2].expressID

-----------------------------------------------------------------------------
(* What the claim about one batch per group speaks of.                     *)

\* The mesh of the scene behind the k-th entry of the result's mesh list.
ResultMesh(k) ==
    scene.meshes[CHOOSE j \in 1..Len(scene.meshes) :
                    scene.meshes[j].id = gen[1].out.meshes[k]]

\* C30: a completed buildScene returns exactly one batch per input group,
\* the k-th batch built from the k-th group, and has put no other mesh into
\* the scene: each group went through the builder once, in the order of
\* the list, whatever the chunk size.
C30_OneBatchPerGroupInOrder ==
    gen[1].pc = "returned" =>
        /\ Len(gen[1].out.meshes) = Len(gen[1].groups)
        /\ \A j, k \in 1..Len(gen[1].out.meshes) :
              j # k => gen[1].out.meshes[j] # gen[1].out.meshes[k]
        /\ DisposalsAfterBuild = 0 =>
              /\ Cardinality(MeshesOf(1)) = Len(gen[1].groups)
              /\ \A k \in 1..Len(gen[1].groups) :
                    /\ \E j \in MeshesOf(1) :
                          scene.meshes[j].id = gen[1].out.meshes[k]
                    /\ CompleteBatch(ResultMesh(k), gen[1].groups[k], 1)

C30_Witness ==
    /\ gen[1].pc = "returned"
    /\ DisposalsAfterBuild = 0
    /\ Len(gen[1].groups) = 3
    /\ gen[1].chunkSize = 2
    /\ Cardinality(MeshesOf(1)) = 3
    /\ Len(gen[1].groups[2].instances) = 1

-----------------------------------------------------------------------------
(* What the claim about the stats speaks of.                               *)

\* The groups of the standalone build with exactly one instance.
SingleInstanceGroups ==
    {k \in 1..Len(gen[1].groups) : Len(gen[1].groups[k].instances) = 1}

\* C31: the stats of a completed build count the input groups, split them
\* into the groups with exactly one instance and the others, and sum the
\* instance counts of all groups.
C31_StatsAddUp ==
    gen[1].pc = "returned" =>
        LET stats == gen[1].out.stats
        IN  /\ stats.groupCount = Len(gen[1].groups)
            /\ stats.singletonGroupCount + stats.instancedGroupCount
                   = stats.groupCount
            /\ stats.singletonGroupCount = Cardinality(SingleInstanceGroups)
            /\ stats.totalInstances = InstanceSum(gen[1].groups)

C31_Witness ==
    /\ gen[1].pc = "returned"
    /\ gen[1].out.stats.groupCount = 2
    /\ gen[1].out.stats.singletonGroupCount = 1
    /\ gen[1].out.stats.instancedGroupCount = 1
    /\ gen[1].out.stats.totalInstances = 3

-----------------------------------------------------------------------------
(* What the claim about the shape of the bounds speaks of.                 *)

SumOfSquares(v) == v[1] * v[1] + v[2] * v[2] + v[3] * v[3]

\* C32: bounds that are returned have min and max the componentwise
\* minimum and maximum over the world boxes of the contributing meshes,
\* min <= max, size = max - min, center = (min + max) / 2 and a diagonal
\* whose square is the sum of the squared sizes (to the thousandth kept).
C32_BoundsAreWellFormed ==
    \A c \in BoundsCalls :
        framings[c].bounds # None =>
            LET b == framings[c].bounds[1]
                ks == VisibleWithVertices(framings[c].meshes)
            IN  /\ ks # {}
                /\ \A a \in 1..3 :
                      /\ b.min[a] = MinOf(WorldVerticesOf(ks))[a]
                      /\ b.max[a] = MaxOf(WorldVerticesOf(ks))[a]
                      /\ b.min[a] <= b.max[a]
                      /\ b.size[a] = b.max[a] - b.min[a]
                      /\ 2 * b.center[a] = b.min[a] + b.max[a]
                /\ b.diagonal >= 0
                /\ b.diagonal * b.diagonal <= SumOfSquares(b.size)
                /\ SumOfSquares(b.size) < (b.diagonal + 1) * (b.diagonal + 1)

C32_Witness ==
    \E c \in BoundsCalls :
        /\ framings[c].bounds # None
        /\ Len(framings[c].meshes) = 3
        /\ Cardinality(VisibleWithVertices(framings[c].meshes)) = 2
        /\ framings[c].bounds[1].size = <<3000, 1000, 1000>>
        /\ framings[c].bounds[1].diagonal = 3316
        /\ scene.meshes[1].positions = <<2, 0, 0, 3, 1, 1>>

-----------------------------------------------------------------------------
(* What the claim about the published progress speaks of.                  *)

\* The positions in the notification log of the states a load publishes
\* when it starts, and the one of the l-th load.
StartPositions ==
    {i \in 1..Len(published) : published[i] = LoadingState(<<>>)}
StartPosition(l) ==
    CHOOSE i \in StartPositions :
        Cardinality({j \in StartPositions : j <= i}) = l

\* No loadData call was made while another was in flight: the loads ran
\* one after the other, in the order of the requests.
NoOverlapSoFar == ~overlapped

\* What was published for the l-th load after its start.
PublishedOf(l) ==
    LET from == StartPosition(l) + 1
        to == IF Cardinality(StartPositions) > l
              THEN StartPosition(l + 1) - 1
              ELSE Len(published)
    IN  SubSeq(published, from, to)

\* The loading states of the first k snapshots a build yielded.
ProgressStates(l, k) == [j \in 1..k |-> LoadingState(yields[l][j])]

ReadyStateOf(l) ==
    [status |-> "ready", meshes |-> gen[l].out.meshes,
     modelID |-> gen[l].modelID, rootNode |-> gen[l].out.rootNode,
     projectInfo |-> [modelID |-> gen[l].modelID]]

\* C33: while loads do not overlap, every state set is notified, a load
\* publishes the snapshots its build yielded once each and in yield order
\* (the one yielded last may still be on its way), and it publishes the
\* ready state after all of them, with the build returned, and nothing
\* after it.
C33_SnapshotsPublishedInOrder ==
    NoOverlapSoFar =>
        /\ IF published = <<>> THEN state = [status |-> "idle"]
           ELSE state = published[Len(published)]
        /\ \A l \in Loads :
              lpc[l] \notin {"none", "awaitClose"} =>
                  /\ Cardinality(StartPositions) >= l
                  /\ IF lpc[l] = "done"
                     THEN /\ gen[l].pc = "returned"
                          /\ PublishedOf(l) =
                                 Append(ProgressStates(l, Len(yields[l])),
                                        ReadyStateOf(l))
                     ELSE \E k \in {Len(yields[l]) - 1, Len(yields[l])} :
                              /\ k >= 0
                              /\ PublishedOf(l) = ProgressStates(l, k)

C33_Witness ==
    /\ NoOverlapSoFar
    /\ lpc[1] = "done"
    /\ lpc[2] = "done"
    /\ Len(yields[2]) = 2
    /\ Len(PublishedOf(2)) = 3
    /\ PublishedOf(2)[1].progress.phase = "building"
    /\ PublishedOf(2)[2].progress.phase = "finalizing"
    /\ PublishedOf(2)[3].status = "ready"

-----------------------------------------------------------------------------
(* What the claim about the run of a build speaks of.                      *)

\* ceil(n / chunkSize)
ChunkCount(n, chunkSize) == (n + chunkSize - 1) \div chunkSize

\* The snapshots a build over n groups yields: one per chunk, then the
\* finalizing one.
ExpectedSnapshots(n, chunkSize) ==
    [k \in 1..(ChunkCount(n, chunkSize) + 1) |->
        IF k <= ChunkCount(n, chunkSize)
        THEN [phase |-> "building", done |-> Min(k * chunkSize, n),
              total |-> n]
        ELSE [phase |-> "finalizing", done |-> 0, total |-> 1]]

\* The snapshots yielded so far are the first of the expected ones, and all
\* of them once the build has returned.
SnapshotsAsExpected ==
    LET expected == ExpectedSnapshots(Len(gen[1].groups), gen[1].chunkSize)
    IN  /\ Len(Ys) <= Len(expected)
        /\ Ys = SubSeq(expected, 1, Len(Ys))
        /\ gen[1].pc = "returned" =>
              /\ Ys = expected
              /\ gen[1].out.stats.groupCount = Len(gen[1].groups)

\* How far a build has come: two per snapshot yielded, one more in the idle
\* wait and after the return.
Advance ==
    2 * Len(Ys) + (IF gen[1].pc \in {"idle", "returned"} THEN 1 ELSE 0)

\* A build whose uploads succeed is never stuck before its return: it is
\* before its first next(), at a yield, or in the idle wait, where the
\* consumer's next() resp. the idle callback takes it on.
NeverStuck ==
    gen[1].pc \in {"suspendedStart", "yieldBuilding", "idle",
                   "yieldFinalizing", "returned"}

\* A step of the generator.
GeneratorStep == gen'[1] # gen[1]

-----------------------------------------------------------------------------
(* What the claims about overlapping loads speak of.                       *)

\* C35: while a loadData call has started and has not finished, the
\* store's status is 'loading'.
C35_LoadingWhileInFlight ==
    InFlight # {} => state.status = "loading"

\* The load requested last, and whether every requested load has finished.
LastRequested == CHOOSE l \in Loads :
    /\ lpc[l] # "none"
    /\ \A k \in Loads : k > l => lpc[k] = "none"
AllCompleted ==
    /\ lpc[1] # "none"
    /\ \A l \in Loads : lpc[l] \in {"none", "done"}

\* C36: when every requested load has completed, the state is the ready
\* state of the load requested last, and the meshes, materials and roots in
\* the scene are those of that load.
C36_LastRequestWins ==
    AllCompleted =>
        /\ state = ReadyStateOf(LastRequested)
        /\ LiveBuilds \subseteq {LastRequested}

-----------------------------------------------------------------------------
(* What the claim about a failing load speaks of.                          *)

\* The loads whose loadData call was rejected.
Caught == {l \in Loads : lpc[l] = "caught"}

\* A ready state is that of a load that ran to its end.
ReadyOfCompleted(st) ==
    \E k \in Loads : lpc[k] = "done" /\ st = ReadyStateOf(k)

\* After a rejection the store is never idle, and every ready state it has
\* published is that of a load that completed.
FailedLoadNeverReady ==
    Caught # {} =>
        /\ state.status \in {"loading", "ready"}
        /\ state.status = "ready" => ReadyOfCompleted(state)
        /\ \A i \in 1..Len(published) :
              published[i].status = "ready" => ReadyOfCompleted(published[i])

\* A rejected load stays rejected and the rejection itself leaves the state
\* alone; afterwards the state changes only by the publications of other
\* loads: a loading state, or the ready state of a load completing in that
\* step.
FailedLoadStaysFailed ==
    /\ \A l \in Loads :
          /\ lpc[l] = "caught" => lpc'[l] = "caught"
          /\ (lpc[l] # "caught" /\ lpc'[l] = "caught") =>
                /\ state' = state
                /\ published' = published
    /\ (Caught # {} /\ state' # state) =>
          \/ state'.status = "loading"
          \/ \E k \in Loads \ Caught :
                /\ lpc[k] = "awaitInfo"
                /\ lpc'[k] = "done"
                /\ state' = ReadyStateOf(k)

-----------------------------------------------------------------------------
(* What the claim about the highlight speaks of.                           *)

\* The batches whose highlight overlay is on.
OverlaidMeshes ==
    {scene.meshes[k].id :
        k \in {j \in 1..Len(scene.meshes) : scene.meshes[j].renderOverlay}}

\* Every handler has run to its end, and the last event was a press of the
\* primary button that resolved to no element.
AllHandled == \A k \in 1..Len(handlers) : handlers[k].pc = "done"
LastResolvedNothing ==
    /\ handlers # <<>>
    /\ handlers[Len(handlers)].button = 0
    /\ ~Resolved(handlers[Len(handlers)].expressID,
                 handlers[Len(handlers)].modelID)

====
